---- MODULE Spec2Model ----
(***************************************************************************)
(* Verification model of stocks_analysis: the snapshot builder             *)
(* (parse_snapshots_from_rows), the transaction inferrer                   *)
(* (infer_transactions / _infer_between_snapshots), the price resolver and *)
(* the daily series builder (build_daily_portfolio_series), the price      *)
(* client (MarketDataClient) and the orchestrator (run_analysis).          *)
(*                                                                         *)
(* Python floats are modelled as exact rationals <<n, d>> in lowest terms  *)
(* with d > 0; dates are day ordinals.                                     *)
(***************************************************************************)
EXTENDS Integers, Sequences, FiniteSets

VARIABLES
    snapshots,   \* list[Snapshot]: output of the parser / input of the inferrer
    txns,        \* infer_transactions: the list being built and returned
    i,           \* infer_transactions: index of the snapshot to diff next
    pc,          \* infer_transactions: position ("start", "loop", "done", "idle")
    rows,        \* parse_snapshots_from_rows: the raw input rows
    by_date,     \* parse_snapshots_from_rows: insertion-ordered dict, date key -> holdings
    ridx,        \* parse_snapshots_from_rows: index of the row parsed next
    ppc,         \* parse_snapshots_from_rows: position
    run,         \* run_analysis: position / outcome
    prices,      \* build_daily_portfolio_series: ticker -> date -> price
    start,       \* build_daily_portfolio_series: first day of the range
    end,         \* build_daily_portfolio_series: last day of the range
    holdings_state, \* build_daily_portfolio_series: instrument -> quantity
    total_cost,  \* build_daily_portfolio_series: the commingled cost basis
    series,      \* build_daily_portfolio_series: the list being built and returned
    prev_value,  \* build_daily_portfolio_series: total_value of the day before, or None
    current,     \* build_daily_portfolio_series: the day valued next
    spc,         \* build_daily_portfolio_series: position
    cache_dir,   \* MarketDataClient: "None", "Path" (a pathlib.Path) or "str"
    cache,       \* the cache directory on disk: ticker -> file
    source,      \* the price source: ticker -> what it answers
    mres,        \* MarketDataClient.get_daily_prices: outcome of the last call
    margs,       \* MarketDataClient.get_daily_prices: (start, end) of the last call
    mcalls,      \* number of calls of get_daily_prices made so far
    _EMPTY_RESULT, \* analysis.py: the module-level AnalysisResult
    result,      \* run_analysis: the AnalysisResult it built
    warnings,    \* run_analysis: its warnings list
    benchmark_prices, \* run_analysis: date -> benchmark close
    asked,       \* run_analysis: the tickers it asked the price client for
    touched,     \* the caller has modified the objects the last invocation returned
    calls,       \* invocations of run_analysis made so far
    daily_returns, \* compute_sharpe_ratio / compute_sortino_ratio: the argument
    risk_free_annual, \* compute_sharpe_ratio / compute_sortino_ratio: the argument
    weights,     \* compute_concentration: insertion-ordered dict, as its list of values
    cur_value,   \* compute_xirr: the argument current_value
    metric,      \* the metric function applied last and what it returned
    sheet,       \* the Holdings worksheet: its rows, the header row first
    latest,      \* date -> the rows of the latest upload_holdings for that date
    last_upload, \* the last call of upload_holdings: its arguments, the sheet before it
    uploads      \* calls of upload_holdings made so far

inferVars == <<snapshots, txns, i, pc>>
parseVars == <<rows, by_date, ridx, ppc, run>>
seriesVars == <<prices, start, end, holdings_state, total_cost, series, prev_value,
                current, spc>>
marketVars == <<cache_dir, cache, source, mres, margs, mcalls>>
runVars == <<_EMPTY_RESULT, result, warnings, benchmark_prices, asked, touched, calls>>
metricVars == <<daily_returns, risk_free_annual, weights, cur_value, metric>>
sheetVars == <<sheet, latest, last_upload, uploads>>
\* what the analysis pipeline never touches
extVars == <<metricVars, sheetVars>>
\* what the snapshot builder and the inferrer never touch
restVars == <<seriesVars, marketVars, runVars>>

vars == <<snapshots, txns, i, pc, rows, by_date, ridx, ppc, run, seriesVars, marketVars,
          runVars, metricVars, sheetVars>>

\* Python's None
None == <<>>

\* _EMPTY_RESULT as the module creates it (date.min is day 0)
EmptyResult ==
    [start_date |-> 0, end_date |-> 0, xirr |-> <<0, 1>>, twr_annualized |-> <<0, 1>>,
     benchmark_twr |-> <<0, 1>>, alpha |-> <<0, 1>>, beta |-> <<0, 1>>,
     sharpe |-> <<0, 1>>, sortino |-> <<0, 1>>, max_drawdown |-> <<0, 1>>,
     max_drawdown_date |-> None, var_95_pct |-> <<0, 1>>, herfindahl |-> <<0, 1>>,
     top_5_concentration |-> <<0, 1>>, warnings |-> <<>>]

\* no price client, no cache directory, a source that knows no ticker
MarketIdle ==
    /\ cache_dir = "None"
    /\ cache = <<>>
    /\ source = <<>>
    /\ mres = [raised |-> FALSE, value |-> <<>>, fetched |-> FALSE]
    /\ margs = <<0, 0>>
    /\ mcalls = 0

\* run_analysis is not running and has not run
RunIdle ==
    /\ _EMPTY_RESULT = EmptyResult
    /\ result = EmptyResult
    /\ warnings = <<>>
    /\ benchmark_prices = <<>>
    /\ asked = <<>>
    /\ touched = FALSE
    /\ calls = 0

\* no metric function has been applied
MetricsIdle ==
    /\ daily_returns = <<>>
    /\ risk_free_annual = <<0, 1>>
    /\ weights = <<>>
    /\ cur_value = <<0, 1>>
    /\ metric = [fn |-> "none", value |-> None]

\* no worksheet, no upload
SheetIdle ==
    /\ sheet = <<>>
    /\ latest = <<>>
    /\ last_upload = [holdings |-> <<>>, date_str |-> "None", before |-> <<>>]
    /\ uploads = 0

ExtIdle == MetricsIdle /\ SheetIdle

\* build_daily_portfolio_series is not running
SeriesIdle ==
    /\ prices = <<>>
    /\ start = 0
    /\ end = 0
    /\ holdings_state = <<>>
    /\ total_cost = <<0, 1>>
    /\ series = <<>>
    /\ prev_value = None
    /\ current = 0
    /\ spc = "idle"

----------------------------------------------------------------------------
(* Bounds of the model *)

\* total number of holdings over all snapshots of an inferrer input
MaxHoldings == 3

Instruments == {"A", "B"}
Quantities == 0 .. 2
\* (avg_cost, ltp) pairs a holding of an instrument may quote; B is quoted at
\* one price to keep the input space small
QuotesOf(inst) == IF inst = "A" THEN {<<1, 2>>, <<2, 1>>, <<3, 2>>} ELSE {<<2, 3>>}

----------------------------------------------------------------------------
(* Exact arithmetic standing for Python float arithmetic *)

Abs(n) == IF n < 0 THEN -n ELSE n

RECURSIVE GCD(_, _)
GCD(a, b) == IF b = 0 THEN a ELSE GCD(b, a % b)

\* the rational n/d (d # 0) in lowest terms with a positive denominator
Rat(n, d) ==
    LET g == GCD(Abs(n), Abs(d))
        s == IF d < 0 THEN -1 ELSE 1
    IN  <<(s * n) \div g, (s * d) \div g>>

F(n) == <<n, 1>>
FMul(x, y) == Rat(x[1] * y[1], x[2] * y[2])
FSub(x, y) == Rat(x[1] * y[2] - y[1] * x[2], x[2] * y[2])
FDiv(x, y) == Rat(x[1] * y[2], x[2] * y[1])
FNeg(x) == <<-x[1], x[2]>>
FLt(x, y) == x[1] * y[2] < y[1] * x[2]
FLe(x, y) == x[1] * y[2] <= y[1] * x[2]

----------------------------------------------------------------------------
(* models.py *)

\* SnapshotHolding as the test helper and the sheet rows build it
SnapshotHolding(d, inst, q, avg, ltp, cv, pnl, pnlp, dc, dcp, exch) ==
    [date |-> d, instrument |-> inst, quantity |-> q, avg_cost |-> avg, ltp |-> ltp,
     current_value |-> cv, pnl |-> pnl, pnl_percent |-> pnlp, day_change |-> dc,
     day_change_percent |-> dcp, exchange |-> exch]

Snapshot(d, hs) == [date |-> d, holdings |-> hs]

Transaction(d, inst, ty, q, price, amount) ==
    [date |-> d, instrument |-> inst, type |-> ty, quantity |-> q,
     price |-> price, amount |-> amount]

----------------------------------------------------------------------------
(* analysis.py: the transaction inferrer *)

\* {h.instrument: h for h in snap.holdings}: keys in first-insertion order,
\* the value of a key is its LAST holding
RECURSIVE DictKeys(_)
DictKeys(hs) ==
    IF hs = <<>> THEN <<>>
    ELSE LET front == DictKeys(SubSeq(hs, 1, Len(hs) - 1))
             k == hs[Len(hs)].instrument
         IN  IF \E j \in 1 .. Len(front) : front[j] = k THEN front
             ELSE Append(front, k)

HasKey(hs, inst) == \E j \in 1 .. Len(hs) : hs[j].instrument = inst

DictGet(hs, inst) ==
    hs[CHOOSE j \in 1 .. Len(hs) :
          /\ hs[j].instrument = inst
          /\ \A m \in (j + 1) .. Len(hs) : hs[m].instrument # inst]

\* EstimatedPrice falling back only when the back-solved price is < 0
EstimatedPrice_StrictFallback(prev_h, curr_h) ==
    LET qty_diff == curr_h.quantity - prev_h.quantity
        estimated_price ==
            FDiv(FSub(FMul(curr_h.avg_cost, F(curr_h.quantity)),
                      FMul(prev_h.avg_cost, F(prev_h.quantity))),
                 F(qty_diff))
    IN  IF FLt(estimated_price, F(0)) THEN curr_h.avg_cost ELSE estimated_price

\* the back-solved price of an additional BUY, with its fallback
EstimatedPrice(prev_h, curr_h) ==
    LET qty_diff == curr_h.quantity - prev_h.quantity
        estimated_price ==
            FDiv(FSub(FMul(curr_h.avg_cost, F(curr_h.quantity)),
                      FMul(prev_h.avg_cost, F(prev_h.quantity))),
                 F(qty_diff))
    IN  IF FLe(estimated_price, F(0)) THEN curr_h.avg_cost ELSE estimated_price

\* ChangedTxns taking the SELL branch on "<=" instead of "<"
ChangedTxns_SellOnEqual(prev, curr, inst) ==
    LET curr_h == DictGet(curr.holdings, inst)
    IN  IF ~HasKey(prev.holdings, inst)
        THEN <<Transaction(curr.date, inst, "BUY", curr_h.quantity, curr_h.avg_cost,
                           FNeg(FMul(curr_h.avg_cost, F(curr_h.quantity))))>>
        ELSE LET prev_h == DictGet(prev.holdings, inst)
             IN  IF curr_h.quantity > prev_h.quantity
                 THEN LET qty_diff == curr_h.quantity - prev_h.quantity
                          price == EstimatedPrice(prev_h, curr_h)
                      IN  <<Transaction(curr.date, inst, "BUY", qty_diff, price,
                                        FNeg(FMul(price, F(qty_diff))))>>
                 ELSE LET qty_diff == prev_h.quantity - curr_h.quantity
                      IN  <<Transaction(curr.date, inst, "SELL", qty_diff, prev_h.ltp,
                                        FMul(prev_h.ltp, F(qty_diff)))>>

\* the first loop's body for one instrument of curr_map
ChangedTxns(prev, curr, inst) ==
    LET curr_h == DictGet(curr.holdings, inst)
    IN  IF ~HasKey(prev.holdings, inst)
        THEN <<Transaction(curr.date, inst, "BUY", curr_h.quantity, curr_h.avg_cost,
                           FNeg(FMul(curr_h.avg_cost, F(curr_h.quantity))))>>
        ELSE LET prev_h == DictGet(prev.holdings, inst)
             IN  IF curr_h.quantity > prev_h.quantity
                 THEN LET qty_diff == curr_h.quantity - prev_h.quantity
                          price == EstimatedPrice(prev_h, curr_h)
                      IN  <<Transaction(curr.date, inst, "BUY", qty_diff, price,
                                        FNeg(FMul(price, F(qty_diff))))>>
                 ELSE IF curr_h.quantity < prev_h.quantity
                 THEN LET qty_diff == prev_h.quantity - curr_h.quantity
                      IN  <<Transaction(curr.date, inst, "SELL", qty_diff, prev_h.ltp,
                                        FMul(prev_h.ltp, F(qty_diff)))>>
                 ELSE <<>>

\* DisappearedTxns selling nothing
DisappearedTxns_NoSell(prev, curr, inst) == <<>>

\* DisappearedTxns dating the SELL at the previous snapshot
DisappearedTxns_PrevDate(prev, curr, inst) ==
    LET prev_h == DictGet(prev.holdings, inst)
    IN  IF ~HasKey(curr.holdings, inst)
        THEN <<Transaction(prev.date, inst, "SELL", prev_h.quantity, prev_h.ltp,
                           FMul(prev_h.ltp, F(prev_h.quantity)))>>
        ELSE <<>>

\* the second loop's body for one instrument of prev_map
DisappearedTxns(prev, curr, inst) ==
    LET prev_h == DictGet(prev.holdings, inst)
    IN  IF ~HasKey(curr.holdings, inst)
        THEN <<Transaction(curr.date, inst, "SELL", prev_h.quantity, prev_h.ltp,
                           FMul(prev_h.ltp, F(prev_h.quantity)))>>
        ELSE <<>>

RECURSIVE ChangedLoop(_, _, _)
\* for instrument, curr_h in curr_map.items(): ... (keys in dict order)
ChangedLoop(prev, curr, keys) ==
    IF keys = <<>> THEN <<>>
    ELSE ChangedTxns(prev, curr, Head(keys)) \o ChangedLoop(prev, curr, Tail(keys))

RECURSIVE DisappearedLoop(_, _, _)
\* for instrument, prev_h in prev_map.items(): ... (keys in dict order)
DisappearedLoop(prev, curr, keys) ==
    IF keys = <<>> THEN <<>>
    ELSE DisappearedTxns(prev, curr, Head(keys))
             \o DisappearedLoop(prev, curr, Tail(keys))

_infer_between_snapshots(prev, curr) ==
    ChangedLoop(prev, curr, DictKeys(curr.holdings))
        \o DisappearedLoop(prev, curr, DictKeys(prev.holdings))

\* the BUY the baseline loop appends for one holding of snapshots[0]
BaselineBuy(d, h) ==
    Transaction(d, h.instrument, "BUY", h.quantity, h.avg_cost,
                FNeg(FMul(h.avg_cost, F(h.quantity))))

BaselineBuys(snap) ==
    [j \in 1 .. Len(snap.holdings) |-> BaselineBuy(snap.date, snap.holdings[j])]

\* infer_transactions, "if not snapshots: return []"
InferEmpty ==
    /\ pc = "start"
    /\ snapshots = <<>>
    /\ txns' = <<>>
    /\ pc' = "done"
    /\ UNCHANGED <<extVars, snapshots, i, parseVars, restVars>>

\* infer_transactions, the loop over snapshots[0].holdings
InferBaseline ==
    /\ pc = "start"
    /\ snapshots # <<>>
    /\ txns' = BaselineBuys(snapshots[1])
    /\ i' = 1
    /\ pc' = "loop"
    /\ UNCHANGED <<extVars, snapshots, parseVars, restVars>>

\* infer_transactions, one iteration of "for i in range(1, len(snapshots))"
\* (i counts from 0 as in the source; TLA+ sequences count from 1)
InferPair ==
    /\ pc = "loop"
    /\ i < Len(snapshots)
    /\ txns' = txns \o _infer_between_snapshots(snapshots[i], snapshots[i + 1])
    /\ i' = i + 1
    /\ UNCHANGED <<extVars, snapshots, pc, parseVars, restVars>>

\* infer_transactions, "return txns"
InferReturn ==
    /\ pc = "loop"
    /\ i = Len(snapshots)
    /\ pc' = "done"
    /\ UNCHANGED <<extVars, snapshots, txns, i, parseVars, restVars>>

----------------------------------------------------------------------------
(* Inputs of the inferrer: what parse_snapshots_from_rows can return *)

\* what a holding is drawn from: instrument, quantity, (avg_cost, ltp)
Protos ==
    UNION {{<<inst, q, c>> : q \in Quantities, c \in QuotesOf(inst)} : inst \in Instruments}

\* the holding of day d for p, its derived fields filled in as the tests'
\* _make_snapshot_holding fills them in
HoldingOn(d, p) ==
    SnapshotHolding(d, p[1], p[2], F(p[3][1]), F(p[3][2]), F(p[3][2] * p[2]),
                    F((p[3][2] - p[3][1]) * p[2]),
                    Rat((p[3][2] - p[3][1]) * 100, p[3][1]), F(0), F(0), "NSE")

\* the number of the group that position j of the flat list falls in, a new
\* group starting after every position in cuts
GroupOf(cuts, j) == 1 + Cardinality({c \in cuts : c < j})

\* the flat list of holdings cut into consecutive non-empty groups, the k-th
\* group being the snapshot of day k
SnapshotsFrom(flat, cuts) ==
    [k \in 1 .. (IF flat = <<>> THEN 0 ELSE 1 + Cardinality(cuts)) |->
        LET idx == {j \in 1 .. Len(flat) : GroupOf(cuts, j) = k}
            lo == CHOOSE j \in idx : \A m \in idx : j <= m
        IN  Snapshot(k, [j \in 1 .. Cardinality(idx) |-> HoldingOn(k, flat[lo + j - 1])])]

InitInfer ==
    /\ \E n \in 0 .. MaxHoldings :
         \E flat \in [1 .. n -> Protos] :
           \E cuts \in SUBSET (1 .. (n - 1)) :
             snapshots = SnapshotsFrom(flat, cuts)
    /\ txns = <<>>
    /\ i = 0
    /\ pc = "start"
    /\ rows = <<>>
    /\ by_date = <<>>
    /\ ridx = 0
    /\ ppc = "idle"
    /\ run = "idle"
    /\ SeriesIdle
    /\ MarketIdle
    /\ RunIdle
    /\ ExtIdle

NextInfer == InferEmpty \/ InferBaseline \/ InferPair \/ InferReturn

SpecInfer == InitInfer /\ [][NextInfer]_vars

----------------------------------------------------------------------------
(* models.py: SnapshotHolding.from_sheet_row, on the strings the rows use *)

\* date.fromisoformat: the day ordinal of a YYYY-MM-DD string
IsIsoDate(tok) ==
    tok \in {"2025-01-15", "2025-01-16", "2025-01-17", "2025-01-18", "2025-01-19",
             "2025-01-20"}
DateOf(tok) ==
    CASE tok = "2025-01-15" -> 15 [] tok = "2025-01-16" -> 16 [] tok = "2025-01-17" -> 17
      [] tok = "2025-01-18" -> 18 [] tok = "2025-01-19" -> 19 [] tok = "2025-01-20" -> 20

\* date.isoformat
IsoFormat(d) ==
    CASE d = 15 -> "2025-01-15" [] d = 16 -> "2025-01-16" [] d = 17 -> "2025-01-17"
      [] d = 18 -> "2025-01-18" [] d = 19 -> "2025-01-19" [] d = 20 -> "2025-01-20"

\* int(): "1.5" is no integer literal
IsInt(tok) == tok \in {"0", "1", "2"}
IntOf(tok) == CASE tok = "0" -> 0 [] tok = "1" -> 1 [] tok = "2" -> 2

\* float(): integer and decimal literals parse, words do not
IsFloat(tok) ==
    tok \in {"0", "1", "2", "3", "6", "20", "1.5", "2.5", "3.0", "4.0", "5.0"}
FloatOf(tok) ==
    CASE tok = "0" -> F(0) [] tok = "1" -> F(1) [] tok = "2" -> F(2) [] tok = "3" -> F(3)
      [] tok = "6" -> F(6) [] tok = "20" -> F(20)
      [] tok = "1.5" -> Rat(3, 2) [] tok = "2.5" -> Rat(5, 2)
      [] tok = "3.0" -> F(3) [] tok = "4.0" -> F(4) [] tok = "5.0" -> F(5)

\* whether evaluating the keyword argument that reads row[f] (f counted from
\* 0 as in the source) raises
FieldRaises(row, f) ==
    \/ f >= Len(row)
    \/ f = 0 /\ ~IsIsoDate(row[1])
    \/ f = 2 /\ ~IsInt(row[3])
    \/ f \in 3 .. 9 /\ ~IsFloat(row[f + 1])

\* the exception from_sheet_row raises on the row, "none" when it returns:
\* the arguments are evaluated in order, the first that fails decides
RowException(row) ==
    IF \A f \in 0 .. 9 : ~FieldRaises(row, f) THEN "none"
    ELSE LET f == CHOOSE g \in 0 .. 9 :
                      FieldRaises(row, g) /\ \A e \in 0 .. (g - 1) : ~FieldRaises(row, e)
         IN  IF f >= Len(row) THEN "IndexError" ELSE "ValueError"

\* the SnapshotHolding from_sheet_row returns
FromSheetRow(row) ==
    SnapshotHolding(DateOf(row[1]), row[2], IntOf(row[3]), FloatOf(row[4]),
                    FloatOf(row[5]), FloatOf(row[6]), FloatOf(row[7]), FloatOf(row[8]),
                    FloatOf(row[9]), FloatOf(row[10]),
                    IF Len(row) > 10 THEN row[11] ELSE "NSE")

----------------------------------------------------------------------------
(* analysis.py: the snapshot builder and the first lines of run_analysis *)

HasDateKey(d, key) == \E j \in 1 .. Len(d) : d[j].key = key

\* by_date[key].append(sh) replacing the list of the key
ByDateAppend_Overwrite(d, key, sh) ==
    IF HasDateKey(d, key)
    THEN [j \in 1 .. Len(d) |->
             IF d[j].key = key THEN [key |-> key, holdings |-> <<sh>>] ELSE d[j]]
    ELSE Append(d, [key |-> key, holdings |-> <<sh>>])

\* by_date[key].append(sh) on a defaultdict(list): a new key goes last
ByDateAppend(d, key, sh) ==
    IF HasDateKey(d, key)
    THEN [j \in 1 .. Len(d) |->
             IF d[j].key = key
             THEN [key |-> key, holdings |-> Append(d[j].holdings, sh)]
             ELSE d[j]]
    ELSE Append(d, [key |-> key, holdings |-> <<sh>>])

\* [Snapshot(date=holdings[0].date, holdings=holdings) for holdings in by_date.values()]
SnapshotsOfDict(d) ==
    [j \in 1 .. Len(d) |-> Snapshot(d[j].holdings[1].date, d[j].holdings)]

RECURSIVE InsertByDate(_, _)
\* snap put into the date-sorted list after the snapshots dated no later
InsertByDate(sorted, snap) ==
    IF sorted = <<>> THEN <<snap>>
    ELSE IF sorted[Len(sorted)].date <= snap.date THEN Append(sorted, snap)
    ELSE Append(InsertByDate(SubSeq(sorted, 1, Len(sorted) - 1), snap),
                sorted[Len(sorted)])

RECURSIVE SortByDate(_)
\* snapshots.sort(key=lambda s: s.date): a stable sort
SortByDate(snaps) ==
    IF snaps = <<>> THEN <<>>
    ELSE InsertByDate(SortByDate(SubSeq(snaps, 1, Len(snaps) - 1)), snaps[Len(snaps)])

\* parse_snapshots_from_rows, "if not rows: return []"
ParseEmpty ==
    /\ ppc = "start"
    /\ rows = <<>>
    /\ snapshots' = <<>>
    /\ ppc' = "returned"
    /\ UNCHANGED <<extVars, txns, i, pc, rows, by_date, ridx, run, restVars>>

\* parse_snapshots_from_rows, one iteration of "for row in rows" that parses
ParseRow ==
    /\ ppc \in {"start", "loop"}
    /\ ridx < Len(rows)
    /\ RowException(rows[ridx + 1]) = "none"
    /\ LET sh == FromSheetRow(rows[ridx + 1])
       IN  by_date' = ByDateAppend(by_date, IsoFormat(sh.date), sh)
    /\ ridx' = ridx + 1
    /\ ppc' = "loop"
    /\ UNCHANGED <<extVars, snapshots, txns, i, pc, rows, run, restVars>>

\* ParseRaise leaving the row out and going on
ParseRaise_SkipRow ==
    /\ ppc \in {"start", "loop"}
    /\ ridx < Len(rows)
    /\ RowException(rows[ridx + 1]) # "none"
    /\ ridx' = ridx + 1
    /\ ppc' = "loop"
    /\ UNCHANGED <<extVars, snapshots, txns, i, pc, rows, by_date, run, restVars>>

\* parse_snapshots_from_rows, an iteration in which from_sheet_row raises:
\* nothing catches it, the function ends without a value
ParseRaise ==
    /\ ppc \in {"start", "loop"}
    /\ ridx < Len(rows)
    /\ RowException(rows[ridx + 1]) # "none"
    /\ ppc' = "raised"
    /\ UNCHANGED <<extVars, snapshots, txns, i, pc, rows, by_date, ridx, run, restVars>>

\* parse_snapshots_from_rows, the snapshots built, sorted and returned
ParseBuild ==
    /\ ppc = "loop"
    /\ ridx = Len(rows)
    /\ snapshots' = SortByDate(SnapshotsOfDict(by_date))
    /\ ppc' = "returned"
    /\ UNCHANGED <<extVars, txns, i, pc, rows, by_date, ridx, run, restVars>>

\* run_analysis, the exception of parse_snapshots_from_rows leaves it uncaught
RunPropagate ==
    /\ run = "called"
    /\ ppc = "raised"
    /\ run' = "raised"
    /\ UNCHANGED <<extVars, snapshots, txns, i, pc, rows, by_date, ridx, ppc, restVars>>

\* run_analysis, "if not snapshots: return _EMPTY_RESULT, [], []"
RunEmpty ==
    /\ run = "called"
    /\ ppc = "returned"
    /\ snapshots = <<>>
    /\ run' = "empty_result"
    /\ UNCHANGED <<extVars, snapshots, txns, i, pc, rows, by_date, ridx, ppc, restVars>>

\* run_analysis going on to the analysis of the snapshots
RunAnalyse ==
    /\ run = "called"
    /\ ppc = "returned"
    /\ snapshots # <<>>
    /\ run' = "analysing"
    /\ UNCHANGED <<extVars, snapshots, txns, i, pc, rows, by_date, ridx, ppc, restVars>>

----------------------------------------------------------------------------
(* Inputs of the snapshot builder *)

\* at most this many rows
MaxRows == 3

\* a row of the sheet in the documented format
SheetRow(d, inst, q, exch) == <<d, inst, q, "2.5", "3", "6", "1", "20", "0", "0", exch>>

WellFormedRows ==
    {SheetRow(d, inst, q, "NSE") :
        d \in {"2025-01-15", "2025-01-20"}, inst \in Instruments, q \in {"1", "2"}}
    \cup {SheetRow("2025-01-15", "A", "1", "BSE"),
          SubSeq(SheetRow("2025-01-15", "A", "1", "NSE"), 1, 10)}

OtherRows ==
    {\* a column more than the format has, a column less
     Append(SheetRow("2025-01-15", "A", "1", "NSE"), "note"),
     SubSeq(SheetRow("2025-01-15", "A", "1", "NSE"), 1, 9),
     \* a date, a quantity, a price that does not parse
     SheetRow("15/01/2025", "A", "1", "NSE"),
     SheetRow("2025-01-15", "A", "1.5", "NSE"),
     [SheetRow("2025-01-15", "A", "1", "NSE") EXCEPT ![5] = "n/a"]}

RowSet == WellFormedRows \cup OtherRows

InitParse ==
    /\ \E n \in 0 .. MaxRows : rows \in [1 .. n -> RowSet]
    /\ by_date = <<>>
    /\ ridx = 0
    /\ ppc = "start"
    /\ run = "called"
    /\ snapshots = <<>>
    /\ txns = <<>>
    /\ i = 0
    /\ pc = "idle"
    /\ SeriesIdle
    /\ MarketIdle
    /\ RunIdle
    /\ ExtIdle

NextParse ==
    \/ ParseEmpty \/ ParseRow \/ ParseRaise \/ ParseBuild
    \/ RunPropagate \/ RunEmpty \/ RunAnalyse

SpecParse == InitParse /\ [][NextParse]_vars

----------------------------------------------------------------------------
(* Vocabulary of the properties of the inferrer *)

DatesAscending ==
    \A a, b \in 1 .. Len(snapshots) : a < b => snapshots[a].date < snapshots[b].date

OnePerInstrument(snap) ==
    \A a, b \in 1 .. Len(snap.holdings) :
        a # b => snap.holdings[a].instrument # snap.holdings[b].instrument

SnapshotInvariant == \A k \in 1 .. Len(snapshots) : OnePerInstrument(snapshots[k])

\* the quantity a snapshot records for an instrument, 0 when it holds none
QtyIn(snap, inst) ==
    IF HasKey(snap.holdings, inst) THEN DictGet(snap.holdings, inst).quantity ELSE 0

RECURSIVE ReplayQty(_, _)
\* the position in inst after replaying ts against an empty portfolio
ReplayQty(ts, inst) ==
    IF ts = <<>> THEN 0
    ELSE LET t == ts[Len(ts)]
             before == ReplayQty(SubSeq(ts, 1, Len(ts) - 1), inst)
         IN  IF t.instrument # inst THEN before
             ELSE IF t.type = "BUY" THEN before + t.quantity
             ELSE before - t.quantity

\* how many leading transactions are dated on or before day d
AppliedThrough(d) ==
    Cardinality({j \in 1 .. Len(txns) : \A m \in 1 .. j : txns[m].date <= d})

\* the transactions the output holds for an instrument on the date of snapshot k
TxnsOf(k, inst) ==
    SelectSeq(txns, LAMBDA t : t.date = snapshots[k].date /\ t.instrument = inst)

\* the transactions the output holds on the date of snapshot k
TxnsOn(k) == SelectSeq(txns, LAMBDA t : t.date = snapshots[k].date)

InBoth(k, inst) ==
    HasKey(snapshots[k - 1].holdings, inst) /\ HasKey(snapshots[k].holdings, inst)

PrevH(k, inst) == DictGet(snapshots[k - 1].holdings, inst)
CurrH(k, inst) == DictGet(snapshots[k].holdings, inst)

----------------------------------------------------------------------------
\* C1: for date-sorted snapshots with distinct dates and one holding per
\* instrument, replaying the returned transactions in order reproduces, after
\* the transactions of each snapshot date, that snapshot's quantity of every
\* instrument (0 for the instruments it does not hold).
C1_ReplayReproducesSnapshots ==
    (pc = "done" /\ DatesAscending /\ SnapshotInvariant) =>
        \A k \in 1 .. Len(snapshots) : \A inst \in Instruments :
            ReplayQty(SubSeq(txns, 1, AppliedThrough(snapshots[k].date)), inst)
                = QtyIn(snapshots[k], inst)

C1_Witness ==
    /\ pc = "done" /\ DatesAscending /\ SnapshotInvariant
    /\ Len(snapshots) >= 2
    /\ \E j \in 1 .. Len(txns) : txns[j].type = "SELL" /\ txns[j].quantity > 0
    /\ \E j \in 1 .. Len(txns) :
          txns[j].type = "BUY" /\ txns[j].date = snapshots[2].date /\ txns[j].quantity > 0

\* C2: every returned transaction is a BUY or a SELL of a quantity > 0 whose
\* amount is negative for a BUY and positive for a SELL (the inputs all have
\* quantity >= 0 and positive avg_cost and ltp).
C2_TransactionsWellFormed ==
    pc = "done" =>
        \A j \in 1 .. Len(txns) :
            /\ txns[j].type \in {"BUY", "SELL"}
            /\ txns[j].quantity > 0
            /\ txns[j].type = "BUY" => FLt(txns[j].amount, F(0))
            /\ txns[j].type = "SELL" => FLt(F(0), txns[j].amount)

\* the cost difference the additional BUY is back-solved from
CostDiff(k, inst) ==
    FSub(FMul(CurrH(k, inst).avg_cost, F(CurrH(k, inst).quantity)),
         FMul(PrevH(k, inst).avg_cost, F(PrevH(k, inst).quantity)))

\* C3: an instrument in both snapshots of a pair whose quantity grew yields
\* exactly one BUY of d = curr.quantity - prev.quantity at a price p with
\* p * d = curr.avg_cost * curr.quantity - prev.avg_cost * prev.quantity when
\* that difference is > 0 and p = curr.avg_cost otherwise; amount = -(p * d).
\* (10 @ 2450.5 then 15 @ 2460.0 prices the BUY of 5 at 2479.0.)
C3_AdditionalBuyPrice ==
    /\ pc = "done" =>
        \A k \in 2 .. Len(snapshots) : \A inst \in Instruments :
            (InBoth(k, inst) /\ CurrH(k, inst).quantity > PrevH(k, inst).quantity) =>
                LET ts == TxnsOf(k, inst)
                    d == CurrH(k, inst).quantity - PrevH(k, inst).quantity
                    diff == CostDiff(k, inst)
                IN  /\ Len(ts) = 1
                    /\ ts[1].type = "BUY"
                    /\ ts[1].quantity = d
                    /\ FLt(F(0), diff) => FMul(ts[1].price, F(d)) = diff
                    /\ FLe(diff, F(0)) => ts[1].price = CurrH(k, inst).avg_cost
                    /\ ts[1].amount = FNeg(FMul(ts[1].price, F(d)))
    /\ EstimatedPrice([quantity |-> 10, avg_cost |-> Rat(24505, 10)],
                      [quantity |-> 15, avg_cost |-> F(2460)]) = F(2479)

C3_Witness ==
    /\ pc = "done"
    /\ \E k \in 2 .. Len(snapshots) : \E inst \in Instruments :
          /\ InBoth(k, inst) /\ CurrH(k, inst).quantity > PrevH(k, inst).quantity
          /\ FLt(F(0), CostDiff(k, inst))
          /\ Len(TxnsOf(k, inst)) = 1
          /\ TxnsOf(k, inst)[1].price # CurrH(k, inst).avg_cost

\* the instrument is not held before snapshot k: k is the first snapshot or
\* the snapshot before it does not hold the instrument
Appears(k, inst) ==
    /\ HasKey(snapshots[k].holdings, inst)
    /\ k > 1 => ~HasKey(snapshots[k - 1].holdings, inst)

\* C4: every SELL of pair (k-1, k) is priced at the instrument's ltp in
\* snapshot k-1 with amount = price * quantity, the quantity being
\* prev.quantity - curr.quantity when the instrument stays with a smaller
\* quantity and prev.quantity when it is gone; so a holding of quantity q > 0
\* that appears in a snapshot and is gone from the next one yields
\* BUY(q, avg_cost) followed by SELL(q, prior ltp) and a net quantity of 0.
C4_SellRuleAndRoundTrip ==
    pc = "done" =>
        /\ \A j \in 1 .. Len(txns) :
              txns[j].type = "SELL" =>
                  \E k \in 2 .. Len(snapshots) :
                      LET inst == txns[j].instrument
                      IN  /\ txns[j].date = snapshots[k].date
                          /\ HasKey(snapshots[k - 1].holdings, inst)
                          /\ txns[j].price = PrevH(k, inst).ltp
                          /\ txns[j].amount = FMul(txns[j].price, F(txns[j].quantity))
                          /\ txns[j].quantity =
                                IF HasKey(snapshots[k].holdings, inst)
                                THEN PrevH(k, inst).quantity - CurrH(k, inst).quantity
                                ELSE PrevH(k, inst).quantity
                          /\ HasKey(snapshots[k].holdings, inst) =>
                                CurrH(k, inst).quantity < PrevH(k, inst).quantity
        /\ \A k \in 2 .. Len(snapshots) :
              \A m \in 1 .. Len(snapshots[k - 1].holdings) :
                  LET h == snapshots[k - 1].holdings[m]
                      inst == h.instrument
                  IN  (h.quantity > 0 /\ Appears(k - 1, inst)
                          /\ ~HasKey(snapshots[k].holdings, inst)) =>
                          /\ \E a, b \in 1 .. Len(txns) :
                                /\ a < b
                                /\ txns[a] =
                                      Transaction(h.date, inst, "BUY", h.quantity, h.avg_cost,
                                                  FNeg(FMul(h.avg_cost, F(h.quantity))))
                                /\ txns[b] =
                                      Transaction(snapshots[k].date, inst, "SELL", h.quantity,
                                                  h.ltp, FMul(h.ltp, F(h.quantity)))
                          /\ ReplayQty(SubSeq(txns, 1, AppliedThrough(snapshots[k].date)),
                                       inst) = 0

\* C5: no snapshots, no transactions; the first snapshot yields exactly
\* len(holdings) transactions, the j-th the BUY of the j-th holding's quantity
\* at its avg_cost with amount -(avg_cost * quantity); an instrument that
\* snapshot k holds and snapshot k-1 does not yields exactly one BUY of
\* curr.quantity at curr.avg_cost; and the baseline is what a diff of the first
\* snapshot against an empty previous snapshot gives.
C5_BaselineAndNewInstruments ==
    pc = "done" =>
        /\ snapshots = <<>> => txns = <<>>
        /\ snapshots # <<>> =>
              LET first == TxnsOn(1)
                  hs == snapshots[1].holdings
              IN  /\ Len(first) = Len(hs)
                  /\ \A j \in 1 .. Len(hs) :
                        first[j] = Transaction(snapshots[1].date, hs[j].instrument, "BUY",
                                               hs[j].quantity, hs[j].avg_cost,
                                               FNeg(FMul(hs[j].avg_cost, F(hs[j].quantity))))
                  /\ first = _infer_between_snapshots(Snapshot(snapshots[1].date, <<>>),
                                                      snapshots[1])
        /\ \A k \in 2 .. Len(snapshots) : \A inst \in Instruments :
              (k > 1 /\ Appears(k, inst)) =>
                  TxnsOf(k, inst) =
                      <<Transaction(snapshots[k].date, inst, "BUY", CurrH(k, inst).quantity,
                                    CurrH(k, inst).avg_cost,
                                    FNeg(FMul(CurrH(k, inst).avg_cost,
                                              F(CurrH(k, inst).quantity))))>>

\* C6: an instrument in both snapshots of a pair with the same quantity yields
\* no transaction for the pair, whatever became of its avg_cost and ltp; every
\* instrument yields at most one transaction per pair; and a pair's
\* transaction for an instrument it holds on both sides never has quantity 0.
C6_UnchangedAndDisjoint ==
    pc = "done" =>
        \A k \in 2 .. Len(snapshots) : \A inst \in Instruments :
            /\ (InBoth(k, inst) /\ CurrH(k, inst).quantity = PrevH(k, inst).quantity) =>
                  TxnsOf(k, inst) = <<>>
            /\ Len(TxnsOf(k, inst)) <= 1
            /\ InBoth(k, inst) =>
                  \A j \in 1 .. Len(TxnsOf(k, inst)) : TxnsOf(k, inst)[j].quantity # 0

C6_Witness ==
    /\ pc = "done"
    /\ \E k \in 2 .. Len(snapshots) : \E inst \in Instruments :
          /\ InBoth(k, inst)
          /\ CurrH(k, inst).quantity = PrevH(k, inst).quantity
          /\ CurrH(k, inst).quantity > 0
          /\ CurrH(k, inst).avg_cost # PrevH(k, inst).avg_cost
          /\ CurrH(k, inst).ltp # PrevH(k, inst).ltp
          /\ TxnsOn(k) # <<>>

\* what one step of infer_transactions does to the output
C7_Step ==
    /\ (pc = "start" /\ pc' = "loop") =>
          \A j \in 1 .. Len(txns') : txns'[j].date = snapshots[1].date
    /\ (pc = "loop" /\ pc' = "loop") =>
          /\ Len(txns') >= Len(txns)
          /\ SubSeq(txns', 1, Len(txns)) = txns
          /\ \A j \in (Len(txns) + 1) .. Len(txns') : txns'[j].date = snapshots[i' ].date
    /\ (pc = "loop" /\ pc' = "done") => txns' = txns

C7_Final ==
    (pc = "done" /\ DatesAscending) =>
        /\ \A j, m \in 1 .. Len(txns) : j < m => txns[j].date <= txns[m].date
        /\ \A j \in 1 .. Len(txns) :
              \E k \in 1 .. Len(snapshots) : txns[j].date = snapshots[k].date

\* C7: the transactions of the baseline carry the first snapshot's date, the
\* transactions of pair (k-1, k) carry snapshot k's date and are appended to
\* the output in snapshot order; so for date-sorted snapshots the dates of the
\* output never decrease and each is a snapshot date.
C7_DatesAndOrder == [][C7_Step]_vars /\ []C7_Final

C7_Witness ==
    /\ pc = "done" /\ DatesAscending
    /\ Len(snapshots) >= 3
    /\ \A k \in 1 .. Len(snapshots) : TxnsOn(k) # <<>>

----------------------------------------------------------------------------
(* Vocabulary of the properties of the snapshot builder *)

\* how often x occurs in the list
Count(seq, x) == Cardinality({j \in 1 .. Len(seq) : seq[j] = x})

\* the number of input rows that parse to the holding h
RowsGiving(h) == Cardinality({r \in 1 .. Len(rows) : FromSheetRow(rows[r]) = h})

\* C8: the snapshots returned have strictly ascending, hence distinct, dates;
\* every input row is a holding of exactly the snapshot of its date, as often
\* as the row occurs in the input and in no other snapshot, and no holding
\* comes from nowhere; no rows, no snapshots.
C8_GroupedSortedComplete ==
    ppc = "returned" =>
        /\ DatesAscending
        /\ rows = <<>> => snapshots = <<>>
        /\ \A r \in 1 .. Len(rows) :
              LET h == FromSheetRow(rows[r])
              IN  /\ h.instrument = rows[r][2]
                  /\ \E k \in 1 .. Len(snapshots) :
                        /\ snapshots[k].date = DateOf(rows[r][1])
                        /\ Count(snapshots[k].holdings, h) = RowsGiving(h)
                  /\ \A k \in 1 .. Len(snapshots) :
                        snapshots[k].date # DateOf(rows[r][1]) =>
                            Count(snapshots[k].holdings, h) = 0
        /\ \A k \in 1 .. Len(snapshots) :
              /\ snapshots[k].holdings # <<>>
              /\ \A j \in 1 .. Len(snapshots[k].holdings) :
                    /\ snapshots[k].holdings[j].date = snapshots[k].date
                    /\ RowsGiving(snapshots[k].holdings[j]) > 0

C8_Witness ==
    /\ ppc = "returned"
    /\ Len(rows) = 3
    /\ DateOf(rows[1][1]) > DateOf(rows[2][1])
    /\ rows[1][1] = rows[3][1]
    /\ Len(snapshots) = 2
    /\ Len(snapshots[2].holdings) = 2

\* C9: every Snapshot the builder returns holds at most one holding per
\* instrument, whatever the rows.
C9_OneHoldingPerInstrument == ppc = "returned" => SnapshotInvariant

\* the row format of the claim: 10 or 11 fields, a date, an integer quantity
\* and seven numbers that parse
WellFormed(row) ==
    /\ Len(row) \in {10, 11}
    /\ IsIsoDate(row[1])
    /\ IsInt(row[3])
    /\ \A f \in 4 .. 10 : IsFloat(row[f])

\* C10: the builder raises, returning nothing, whenever some row is not in
\* the row format, and for no input whose rows all are; run_analysis
\* propagates the error.
C10_RaisesOnEveryInvalidRow ==
    /\ ppc = "returned" => \A r \in 1 .. Len(rows) : WellFormed(rows[r])
    /\ ppc = "raised" =>
          /\ \E r \in 1 .. Len(rows) : ~WellFormed(rows[r])
          /\ snapshots = <<>>
          /\ run \in {"called", "raised"}
    /\ run = "raised" => ppc = "raised"

\* a row from_sheet_row cannot read: a field among the first ten is missing
\* or does not parse
Unreadable(row) ==
    \/ Len(row) < 10
    \/ ~IsIsoDate(row[1])
    \/ ~IsInt(row[3])
    \/ \E f \in 4 .. 10 : ~IsFloat(row[f])

\* C10 as amended: the builder raises, returning nothing, whenever some row
\* has fewer than 10 fields or a date or numeric field that does not parse,
\* and for no other input (fields after the 11th are ignored); run_analysis
\* propagates the error.
C10_RaisesOnEveryUnreadableRow ==
    /\ ppc = "returned" => \A r \in 1 .. Len(rows) : ~Unreadable(rows[r])
    /\ ppc = "raised" =>
          /\ \E r \in 1 .. Len(rows) : Unreadable(rows[r])
          /\ snapshots = <<>>
          /\ run \in {"called", "raised"}
    /\ run = "raised" => ppc = "raised"
    /\ run \in {"empty_result", "analysing"} => ppc = "returned"

C10_Witness ==
    /\ run = "raised"
    /\ Len(rows) = 3
    /\ WellFormed(rows[1])
    /\ Unreadable(rows[2])
    /\ by_date # <<>>

----------------------------------------------------------------------------
(* market_data.py: the ticker of an instrument *)

\* str.strip on the instrument names in use
Strip(name) == CASE name = " A" -> "A" [] name = "A " -> "A" [] OTHER -> name

nse_to_yfinance_ticker(instrument, exchange) ==
    LET inst == Strip(instrument)
    IN  IF inst \in {"NIFTY 50", "NIFTY50"} THEN "^NSEI"
        ELSE inst \o (IF exchange = "BSE" THEN ".BO" ELSE ".NS")

----------------------------------------------------------------------------
(* analysis.py: the price resolver and the daily series builder *)

FAdd(x, y) == Rat(x[1] * y[2] + y[1] * x[2], x[2] * y[2])
FMax(x, y) == IF FLt(x, y) THEN y ELSE x

DailyPortfolioValue(d, total_value, cost, daily_return) ==
    [date |-> d, total_value |-> total_value, total_cost |-> cost,
     daily_return |-> daily_return]

RECURSIVE AllHoldings(_)
\* the holdings in the order "for snap in snapshots: for h in snap.holdings" visits
AllHoldings(snaps) ==
    IF snaps = <<>> THEN <<>>
    ELSE AllHoldings(SubSeq(snaps, 1, Len(snaps) - 1)) \o snaps[Len(snaps)].holdings

\* instrument_tickers.get(instrument, ""): the first holding of an instrument
\* decides its ticker
InstrumentTicker(snaps, instrument) ==
    LET hs == AllHoldings(snaps)
    IN  IF ~HasKey(hs, instrument) THEN ""
        ELSE LET j == CHOOSE a \in 1 .. Len(hs) :
                          /\ hs[a].instrument = instrument
                          /\ \A b \in 1 .. (a - 1) : hs[b].instrument # instrument
             IN  nse_to_yfinance_ticker(hs[j].instrument, hs[j].exchange)

\* ltp_fallback keeping the LTPs of the last snapshot only
ltp_fallback_LastSnapshot(snaps) ==
    [inst \in {AllHoldings(snaps)[j].instrument : j \in 1 .. Len(AllHoldings(snaps))} |->
        [d \in {snaps[k].date : k \in {m \in {Len(snaps)} :
                                         HasKey(snaps[m].holdings, inst)}} |->
            DictGet(snaps[Len(snaps)].holdings, inst).ltp]]

\* ltp_fallback[h.instrument][snap.date] = h.ltp: the last holding written wins
ltp_fallback(snaps) ==
    [inst \in {AllHoldings(snaps)[j].instrument : j \in 1 .. Len(AllHoldings(snaps))} |->
        [d \in {snaps[k].date : k \in {m \in 1 .. Len(snaps) :
                                         HasKey(snaps[m].holdings, inst)}} |->
            LET k == CHOOSE m \in 1 .. Len(snaps) :
                        /\ snaps[m].date = d /\ HasKey(snaps[m].holdings, inst)
                        /\ \A n \in (m + 1) .. Len(snaps) :
                              ~(snaps[n].date = d /\ HasKey(snaps[n].holdings, inst))
            IN  DictGet(snaps[k].holdings, inst).ltp]]

MaxOf(S) == CHOOSE x \in S : \A y \in S : y <= x

\* _resolve_price forward-filling from the nearest date, later ones included
_resolve_price_AnyDate(ticker, instrument, dt, pr, ltp) ==
    IF ticker \in DOMAIN pr /\ dt \in DOMAIN pr[ticker] THEN pr[ticker][dt]
    ELSE IF ticker \in DOMAIN pr /\ DOMAIN pr[ticker] # {}
    THEN pr[ticker][MaxOf(DOMAIN pr[ticker])]
    ELSE IF instrument \in DOMAIN ltp /\ {d \in DOMAIN ltp[instrument] : d <= dt} # {}
    THEN ltp[instrument][MaxOf({d \in DOMAIN ltp[instrument] : d <= dt})]
    ELSE None

_resolve_price(ticker, instrument, dt, pr, ltp) ==
    IF ticker \in DOMAIN pr /\ dt \in DOMAIN pr[ticker] THEN pr[ticker][dt]
    ELSE IF ticker \in DOMAIN pr /\ {d \in DOMAIN pr[ticker] : d <= dt} # {}
    THEN pr[ticker][MaxOf({d \in DOMAIN pr[ticker] : d <= dt})]
    ELSE IF instrument \in DOMAIN ltp /\ {d \in DOMAIN ltp[instrument] : d <= dt} # {}
    THEN ltp[instrument][MaxOf({d \in DOMAIN ltp[instrument] : d <= dt})]
    ELSE None

\* holdings_state.get(instrument, 0)
QtyHeld(h, instrument) == IF instrument \in DOMAIN h THEN h[instrument] ELSE 0

\* holdings_state[instrument] = qty
PutQty(h, instrument, qty) ==
    [x \in DOMAIN h \cup {instrument} |-> IF x = instrument THEN qty ELSE h[x]]

\* del holdings_state[instrument]
DelQty(h, instrument) == [x \in DOMAIN h \ {instrument} |-> h[x]]

\* ApplyTxn keeping a sold-out instrument in holdings_state
ApplyTxn_KeepSoldOut(st, txn) ==
    IF txn.type = "BUY"
    THEN [holdings |-> PutQty(st.holdings, txn.instrument,
                              QtyHeld(st.holdings, txn.instrument) + txn.quantity),
          total_cost |-> FAdd(st.total_cost, FMul(txn.price, F(txn.quantity)))]
    ELSE IF txn.type = "SELL"
    THEN [holdings |-> PutQty(st.holdings, txn.instrument,
                              QtyHeld(st.holdings, txn.instrument) - txn.quantity),
          total_cost |-> FMax(F(0), FSub(st.total_cost, FMul(txn.price, F(txn.quantity))))]
    ELSE st

\* ApplyTxn letting total_cost fall below 0 on a SELL
ApplyTxn_NoFloor(st, txn) ==
    IF txn.type = "BUY"
    THEN [holdings |-> PutQty(st.holdings, txn.instrument,
                              QtyHeld(st.holdings, txn.instrument) + txn.quantity),
          total_cost |-> FAdd(st.total_cost, FMul(txn.price, F(txn.quantity)))]
    ELSE IF txn.type = "SELL"
    THEN LET qty == QtyHeld(st.holdings, txn.instrument) - txn.quantity
         IN  [holdings |-> IF qty <= 0 THEN DelQty(st.holdings, txn.instrument)
                           ELSE PutQty(st.holdings, txn.instrument, qty),
              total_cost |-> FSub(st.total_cost, FMul(txn.price, F(txn.quantity)))]
    ELSE st

\* the body of "for txn in txn_by_date.get(current, [])" on
\* st = (holdings_state, total_cost)
ApplyTxn(st, txn) ==
    IF txn.type = "BUY"
    THEN [holdings |-> PutQty(st.holdings, txn.instrument,
                              QtyHeld(st.holdings, txn.instrument) + txn.quantity),
          total_cost |-> FAdd(st.total_cost, FMul(txn.price, F(txn.quantity)))]
    ELSE IF txn.type = "SELL"
    THEN LET qty == QtyHeld(st.holdings, txn.instrument) - txn.quantity
         IN  [holdings |-> IF qty <= 0 THEN DelQty(st.holdings, txn.instrument)
                           ELSE PutQty(st.holdings, txn.instrument, qty),
              total_cost |-> FMax(F(0), FSub(st.total_cost,
                                             FMul(txn.price, F(txn.quantity))))]
    ELSE st

RECURSIVE ApplyTxns(_, _)
ApplyTxns(st, ts) ==
    IF ts = <<>> THEN st ELSE ApplyTxns(ApplyTxn(st, Head(ts)), Tail(ts))

\* txn_by_date.get(day, []): the transactions of the day in list order
txn_by_date(ts, day) == SelectSeq(ts, LAMBDA t : t.date = day)

\* ValueOf counting an instrument without a price at 1 per unit
ValueOf_AbsentAtPar(h, instrument, day, snaps, pr) ==
    LET price == _resolve_price(InstrumentTicker(snaps, instrument), instrument, day, pr,
                                ltp_fallback(snaps))
    IN  IF price # None THEN FMul(price, F(h[instrument])) ELSE F(h[instrument])

\* what an instrument of holdings_state adds to total_value
ValueOf(h, instrument, day, snaps, pr) ==
    LET price == _resolve_price(InstrumentTicker(snaps, instrument), instrument, day, pr,
                                ltp_fallback(snaps))
    IN  IF price # None THEN FMul(price, F(h[instrument])) ELSE F(0)

RECURSIVE SumValues(_, _, _, _, _)
\* the loop "for instrument, qty in holdings_state.items()" over the keys in S
SumValues(h, S, day, snaps, pr) ==
    IF S = {} THEN F(0)
    ELSE LET x == CHOOSE y \in S : TRUE
         IN  FAdd(ValueOf(h, x, day, snaps, pr), SumValues(h, S \ {x}, day, snaps, pr))

TotalValue(h, day, snaps, pr) == SumValues(h, DOMAIN h, day, snaps, pr)

\* DailyReturn measuring the change against the day's own value
DailyReturn_OverCurrent(prev, total_value) ==
    IF prev # None /\ FLt(F(0), prev) /\ FLt(F(0), total_value)
    THEN FDiv(FSub(total_value, prev), total_value)
    ELSE F(0)

DailyReturn(prev, total_value) ==
    IF prev # None /\ FLt(F(0), prev) THEN FDiv(FSub(total_value, prev), prev) ELSE F(0)

\* build_daily_portfolio_series, "if not snapshots: return []"
SeriesEmpty ==
    /\ spc = "start"
    /\ snapshots = <<>>
    /\ series' = <<>>
    /\ spc' = "returned"
    /\ UNCHANGED <<extVars, inferVars, parseVars, marketVars, runVars, prices, start, end, holdings_state, total_cost,
                   prev_value, current>>

\* build_daily_portfolio_series, the tables built and the loop variables set
SeriesStart ==
    /\ spc = "start"
    /\ snapshots # <<>>
    /\ holdings_state' = <<>>
    /\ total_cost' = F(0)
    /\ series' = <<>>
    /\ prev_value' = None
    /\ current' = start
    /\ spc' = "loop"
    /\ UNCHANGED <<extVars, inferVars, parseVars, marketVars, runVars, prices, start, end>>

\* SeriesDay recording the days with transactions only
SeriesDay_TradingDaysOnly ==
    /\ spc = "loop"
    /\ current <= end
    /\ LET st == ApplyTxns([holdings |-> holdings_state, total_cost |-> total_cost],
                           txn_by_date(txns, current))
           total_value == TotalValue(st.holdings, current, snapshots, prices)
       IN  /\ holdings_state' = st.holdings
           /\ total_cost' = st.total_cost
           /\ series' = IF txn_by_date(txns, current) = <<>> THEN series
                        ELSE Append(series,
                                    DailyPortfolioValue(current, total_value, st.total_cost,
                                                        DailyReturn(prev_value, total_value)))
           /\ prev_value' = total_value
    /\ current' = current + 1
    /\ UNCHANGED <<extVars, inferVars, parseVars, marketVars, runVars, prices, start, end, spc>>

\* build_daily_portfolio_series, one iteration of "while current <= end"
SeriesDay ==
    /\ spc = "loop"
    /\ current <= end
    /\ LET st == ApplyTxns([holdings |-> holdings_state, total_cost |-> total_cost],
                           txn_by_date(txns, current))
           total_value == TotalValue(st.holdings, current, snapshots, prices)
       IN  /\ holdings_state' = st.holdings
           /\ total_cost' = st.total_cost
           /\ series' = Append(series,
                               DailyPortfolioValue(current, total_value, st.total_cost,
                                                   DailyReturn(prev_value, total_value)))
           /\ prev_value' = total_value
    /\ current' = current + 1
    /\ UNCHANGED <<extVars, inferVars, parseVars, marketVars, runVars, prices, start, end, spc>>

\* build_daily_portfolio_series, "return series"
SeriesReturn ==
    /\ spc = "loop"
    /\ current > end
    /\ spc' = "returned"
    /\ UNCHANGED <<extVars, inferVars, parseVars, marketVars, runVars, prices, start, end, holdings_state, total_cost,
                   series, prev_value, current>>

----------------------------------------------------------------------------
(* Inputs of the daily series builder *)

\* the calendar of the inputs is 1 .. MaxDays
MaxDays == 3
\* at most this many transactions in the list
MaxTxns == 2

\* the holding of day d a snapshot of these inputs holds for an instrument
SeriesHolding(d, inst, ltp, exch) ==
    [HoldingOn(d, <<inst, 1, <<2, ltp>>>>) EXCEPT !.exchange = exch]

SeriesSnapshot(d, hl) ==
    Snapshot(d, [j \in 1 .. Len(hl) |-> SeriesHolding(d, hl[j][1], hl[j][2], hl[j][3])])

\* (instrument, ltp, exchange) lists a snapshot is built from
HoldingLists ==
    {<<<<"A", 1, "NSE">>>>, <<<<"A", 2, "NSE">>>>, <<<<"B", 3, "BSE">>>>,
     <<<<"A", 1, "NSE">>, <<"B", 3, "BSE">>>>}

\* the transactions of a day the lists are built from
TxnsOfDay(d) ==
    {Transaction(d, "A", "BUY", 2, F(2), FNeg(F(4))),
     Transaction(d, "A", "SELL", 1, F(3), F(3)),
     Transaction(d, "B", "BUY", 1, F(2), FNeg(F(2))),
     Transaction(d, "B", "SELL", 1, F(1), F(1))}

TxnChoices == UNION {TxnsOfDay(d) : d \in {1, 2, 3}}

\* price tables: none, an exact day, a later day, two days with a gap, a
\* ticker without dates, one ticker late and the other early
PriceTables ==
    {<<>>,
     [t \in {"A.NS"} |-> [d \in {1} |-> F(3)]],
     [t \in {"A.NS"} |-> [d \in {2} |-> F(4)]],
     [t \in {"A.NS"} |-> [d \in {1, 3} |-> IF d = 1 THEN F(3) ELSE F(5)]],
     [t \in {"A.NS"} |-> <<>>],
     [t \in {"A.NS", "B.BO"} |-> IF t = "A.NS" THEN [d \in {3} |-> F(5)]
                                 ELSE [d \in {1} |-> F(1)]]}

\* many transaction lists against a few snapshot lists and one price table
InitSeriesTxns ==
    /\ \E n \in 0 .. MaxTxns : txns \in [1 .. n -> TxnChoices]
    /\ snapshots \in
          {<<>>,
           <<SeriesSnapshot(1, <<<<"A", 2, "NSE">>>>)>>,
           <<SeriesSnapshot(1, <<<<"A", 2, "NSE">>>>),
             SeriesSnapshot(2, <<<<"A", 1, "NSE">>, <<"B", 3, "BSE">>>>)>>}
    /\ prices = [t \in {"A.NS"} |-> [d \in {1} |-> F(3)]]
    /\ start \in 1 .. 2
    /\ end \in start .. MaxDays

\* many snapshot lists and price tables against a few transaction lists
InitSeriesPrices ==
    /\ txns \in {<<Transaction(1, "A", "BUY", 2, F(2), FNeg(F(4)))>>,
                 <<Transaction(1, "A", "BUY", 2, F(2), FNeg(F(4))),
                   Transaction(1, "B", "BUY", 1, F(2), FNeg(F(2)))>>,
                 <<Transaction(1, "B", "BUY", 1, F(2), FNeg(F(2))),
                   Transaction(2, "A", "BUY", 2, F(2), FNeg(F(4)))>>}
    /\ \E d1 \in 1 .. MaxDays : \E d2 \in d1 .. MaxDays :
         \E h1 \in HoldingLists : \E h2 \in HoldingLists :
            snapshots = IF d1 = d2 THEN <<SeriesSnapshot(d1, h1)>>
                        ELSE <<SeriesSnapshot(d1, h1), SeriesSnapshot(d2, h2)>>
    /\ prices \in PriceTables
    /\ start \in 1 .. 2
    /\ end = MaxDays

InitSeries ==
    /\ InitSeriesTxns \/ InitSeriesPrices
    /\ i = 0
    /\ pc = "idle"
    /\ rows = <<>>
    /\ by_date = <<>>
    /\ ridx = 0
    /\ ppc = "idle"
    /\ run = "idle"
    /\ holdings_state = <<>>
    /\ total_cost = F(0)
    /\ series = <<>>
    /\ prev_value = None
    /\ current = 0
    /\ spc = "start"
    /\ MarketIdle
    /\ RunIdle
    /\ ExtIdle

NextSeries == SeriesEmpty \/ SeriesStart \/ SeriesDay \/ SeriesReturn

SpecSeries == InitSeries /\ [][NextSeries]_vars

----------------------------------------------------------------------------
(* Vocabulary of the properties of the daily series builder *)

\* the price the builder resolves for an instrument on a day
Resolve(inst, day) ==
    _resolve_price(InstrumentTicker(snapshots, inst), inst, day, prices,
                   ltp_fallback(snapshots))

RECURSIVE AppliedBy(_)
\* the transactions applied by the end of a day: those of each day from start
\* on, day after day, each day's in list order
AppliedBy(day) ==
    IF day < start THEN <<>>
    ELSE AppliedBy(day - 1) \o SelectSeq(txns, LAMBDA t : t.date = day)

RECURSIVE Position(_, _)
\* whether an instrument is held, and how much of it, after the transactions ts
Position(ts, inst) ==
    IF ts = <<>> THEN [held |-> FALSE, qty |-> 0]
    ELSE LET t == ts[Len(ts)]
             before == Position(SubSeq(ts, 1, Len(ts) - 1), inst)
         IN  IF t.instrument # inst THEN before
             ELSE IF t.type = "BUY" THEN [held |-> TRUE, qty |-> before.qty + t.quantity]
             ELSE IF before.qty - t.quantity <= 0 THEN [held |-> FALSE, qty |-> 0]
             ELSE [held |-> TRUE, qty |-> before.qty - t.quantity]

RECURSIVE CostBasis(_)
\* the scalar cost basis after the transactions ts
CostBasis(ts) ==
    IF ts = <<>> THEN F(0)
    ELSE LET t == ts[Len(ts)]
             before == CostBasis(SubSeq(ts, 1, Len(ts) - 1))
             paid == FMul(t.price, F(t.quantity))
         IN  IF t.type = "BUY" THEN FAdd(before, paid)
             ELSE IF FLt(FSub(before, paid), F(0)) THEN F(0) ELSE FSub(before, paid)

\* quantity * resolved price of an instrument on a day, 0 when it is not held
\* or has no price
Worth(inst, day) ==
    LET pos == Position(AppliedBy(day), inst)
    IN  IF pos.held /\ Resolve(inst, day) # None
        THEN FMul(F(pos.qty), Resolve(inst, day)) ELSE F(0)

RECURSIVE SumWorth(_, _)
SumWorth(S, day) ==
    IF S = {} THEN F(0)
    ELSE LET x == CHOOSE y \in S : TRUE IN FAdd(Worth(x, day), SumWorth(S \ {x}, day))

NoTxnOn(day) == \A j \in 1 .. Len(txns) : txns[j].date # day

----------------------------------------------------------------------------
\* with non-empty snapshots the series holds one entry per calendar day of
\* [start, end], in ascending order without gap or duplicate, end - start + 1
\* entries in all; with empty snapshots it is []
SeriesCoversRange ==
    /\ spc \in {"loop", "returned"} =>
          \A j \in 1 .. Len(series) : series[j].date = start + j - 1
    /\ (spc = "returned" /\ snapshots # <<>>) => Len(series) = end - start + 1
    /\ (spc = "returned" /\ snapshots = <<>>) => series = <<>>

\* C12: each entry's total_value is the sum, over the instruments held after
\* the transactions of that day and of the days before, of quantity times
\* resolved price; the instruments held are those a replay in list order
\* leaves with a quantity, a SELL taking out an instrument whose quantity
\* falls to <= 0.
C12_TransactionsThenValue ==
    spc \in {"loop", "returned"} =>
        /\ \A j \in 1 .. Len(series) :
              series[j].total_value = SumWorth(Instruments, series[j].date)
        /\ series # <<>> =>
              \A inst \in Instruments :
                  LET pos == Position(AppliedBy(series[Len(series)].date), inst)
                  IN  /\ (inst \in DOMAIN holdings_state) = pos.held
                      /\ pos.held => holdings_state[inst] = pos.qty

C12_Witness ==
    /\ spc = "returned"
    /\ Len(series) >= 2
    /\ Len(txns) = 2
    /\ txns[1].type = "SELL" /\ txns[1].date = start + 1
    /\ txns[2].type = "BUY" /\ txns[2].date = start
    /\ txns[1].instrument = txns[2].instrument
    /\ FLt(F(0), series[2].total_value)
    /\ FLt(series[2].total_value, series[1].total_value)

\* C13: each entry's total_cost is the scalar that starts at 0, grows by
\* price * quantity on a BUY and becomes max(0, total_cost - price * quantity)
\* on a SELL; it is that of the day before on a day without transactions, and
\* never below 0.
C13_ScalarCostBasis ==
    spc \in {"loop", "returned"} =>
        \A j \in 1 .. Len(series) :
            /\ series[j].total_cost = CostBasis(AppliedBy(series[j].date))
            /\ FLe(F(0), series[j].total_cost)
            /\ NoTxnOn(series[j].date) =>
                  series[j].total_cost = IF j = 1 THEN F(0) ELSE series[j - 1].total_cost

C13_Witness ==
    /\ spc = "returned"
    /\ Len(series) = 3
    /\ FLt(F(0), series[1].total_cost)
    /\ series[2].total_cost = F(0)
    /\ series[3].total_cost = F(0)
    /\ ~NoTxnOn(series[2].date)

\* C14: the first entry's daily_return is 0; a later entry's is (total_value -
\* previous total_value) / previous total_value when the previous total_value
\* is > 0 and 0 otherwise.
C14_DailyReturn ==
    spc \in {"loop", "returned"} =>
        \A j \in 1 .. Len(series) :
            IF j > 1 /\ FLt(F(0), series[j - 1].total_value)
            THEN FMul(series[j].daily_return, series[j - 1].total_value)
                    = FSub(series[j].total_value, series[j - 1].total_value)
            ELSE series[j].daily_return = F(0)

C14_Witness ==
    /\ spc = "returned"
    /\ Len(series) = 3
    /\ series[1].total_value = F(0)
    /\ FLt(F(0), series[2].total_value)
    /\ series[2].daily_return = F(0)
    /\ FLt(series[3].daily_return, F(0))

\* the price-source dates of an instrument's ticker up to a day
PriceDatesUpTo(inst, dt) ==
    LET t == InstrumentTicker(snapshots, inst)
    IN  IF t \in DOMAIN prices THEN {d \in DOMAIN prices[t] : d <= dt} ELSE {}

\* the dates up to a day of the snapshots that hold an instrument
LtpDatesUpTo(inst, dt) ==
    {snapshots[k].date : k \in {m \in 1 .. Len(snapshots) :
        HasKey(snapshots[m].holdings, inst) /\ snapshots[m].date <= dt}}

\* the precedence of price resolution: the price of the day, else the price of
\* the most recent earlier day, else the LTP of the most recent snapshot up to
\* the day, else nothing; never a price or LTP of a later day
ResolutionOrder ==
    \A inst \in Instruments : \A dt \in 1 .. MaxDays :
        LET t == InstrumentTicker(snapshots, inst)
            pd == PriceDatesUpTo(inst, dt)
            sd == LtpDatesUpTo(inst, dt)
            r == Resolve(inst, dt)
        IN  /\ dt \in pd => r = prices[t][dt]
            /\ pd # {} => \E d \in pd : r = prices[t][d] /\ \A e \in pd : e <= d
            /\ (pd = {} /\ sd # {}) =>
                  \E d \in sd :
                      /\ \A e \in sd : e <= d
                      /\ \E k \in 1 .. Len(snapshots) :
                            \E j \in 1 .. Len(snapshots[k].holdings) :
                                /\ snapshots[k].date = d
                                /\ snapshots[k].holdings[j].instrument = inst
                                /\ r = snapshots[k].holdings[j].ltp
            /\ (pd = {} /\ sd = {}) => r = None

NoPriceOn(day) == \A t \in DOMAIN prices : day \notin DOMAIN prices[t]

NoSnapshotOn(day) == \A k \in 1 .. Len(snapshots) : snapshots[k].date # day

\* C15: price resolution follows the precedence above, so on a day with no
\* price-source entry and no transaction the total_value is that of the day
\* before.
C15_ResolutionAndForwardFill ==
    /\ ResolutionOrder
    /\ spc \in {"loop", "returned"} =>
          \A j \in 2 .. Len(series) :
              (NoPriceOn(series[j].date) /\ NoTxnOn(series[j].date)) =>
                  series[j].total_value = series[j - 1].total_value

\* C15 as amended: price resolution follows the precedence above, so on a day
\* with no price-source entry, no snapshot and no transaction the total_value
\* is that of the day before (a snapshot of the day brings a new LTP).
C15_ForwardFillBetweenSnapshots ==
    /\ ResolutionOrder
    /\ spc \in {"loop", "returned"} =>
          \A j \in 2 .. Len(series) :
              (NoPriceOn(series[j].date) /\ NoSnapshotOn(series[j].date)
                  /\ NoTxnOn(series[j].date)) =>
                  series[j].total_value = series[j - 1].total_value

C15_Witness ==
    /\ spc = "returned"
    /\ Len(series) = 3
    /\ "A" \in DOMAIN holdings_state /\ "B" \in DOMAIN holdings_state
    /\ NoPriceOn(2) /\ NoSnapshotOn(2) /\ NoTxnOn(2)
    /\ PriceDatesUpTo("A", 2) = {1}
    /\ PriceDatesUpTo("B", 2) = {} /\ LtpDatesUpTo("B", 2) = {1}
    /\ ~NoPriceOn(3) /\ series[3].total_value # series[2].total_value
    /\ FLt(F(0), series[2].total_value)

\* C16: an instrument held on a day for which no price resolves adds 0 to the
\* day's total_value and leaves what the others add as it is, stays in
\* holdings, and the series still has its entry for every day of the range.
C16_AbsentPriceCountsZero ==
    /\ (spc \in {"loop", "returned"} /\ series # <<>>) =>
          LET day == series[Len(series)].date
          IN  \A inst \in Instruments :
                  (Position(AppliedBy(day), inst).held /\ Resolve(inst, day) = None) =>
                      /\ inst \in DOMAIN holdings_state
                      /\ series[Len(series)].total_value =
                            SumWorth(Instruments \ {inst}, day)
                      /\ series[Len(series)].total_value =
                            TotalValue(DelQty(holdings_state, inst), day, snapshots, prices)
    /\ (spc = "returned" /\ snapshots # <<>>) =>
          \A d \in start .. end : \E j \in 1 .. Len(series) : series[j].date = d

C16_Witness ==
    /\ spc = "returned"
    /\ series # <<>>
    /\ "A" \in DOMAIN holdings_state /\ "B" \in DOMAIN holdings_state
    /\ Resolve("B", end) = None
    /\ Resolve("A", end) # None
    /\ FLt(F(0), series[Len(series)].total_value)
    /\ \E j \in 1 .. Len(series) : series[j].total_value = F(0) /\ series[j].date >= 1

----------------------------------------------------------------------------
(* market_data.py: MarketDataClient *)

\* a file of the cache directory: whether it exists, and its rows after the
\* header row, each a list of strings
CacheFile(exists, lines) == [exists |-> exists, rows |-> lines]

\* what the price source answers for a ticker: it raises, or it has closes
\* for some days (none at all: an empty frame)
Source(raises, data) == [raises |-> raises, data |-> data]

\* the file _cache_path names for a ticker
FileOf(files, ticker) ==
    IF ticker \in DOMAIN files THEN files[ticker] ELSE CacheFile(FALSE, <<>>)

\* {d: p for d, p in m.items() if start <= d <= end}
InRange(m, s, e) == [d \in {x \in DOMAIN m : s <= x /\ x <= e} |-> m[d]]

\* {**a, **b}
Merge(a, b) == [d \in DOMAIN a \cup DOMAIN b |-> IF d \in DOMAIN b THEN b[d] ELSE a[d]]

\* repr of a float as csv.writer writes it
FloatRepr(x) == CASE x = F(3) -> "3.0" [] x = F(4) -> "4.0" [] x = F(5) -> "5.0"

\* the rows of a cache file that _read_cache reads: those of two fields or more
ReadableRows(file) == SelectSeq(file.rows, LAMBDA row : Len(row) >= 2)

\* _read_cache: {} without a cache directory or file; the rows of the file
\* otherwise, a later row of a date replacing an earlier one. Joining a str
\* cache_dir with the file name raises TypeError, a field that does not parse
\* raises ValueError.
_read_cache(cdir, file) ==
    IF cdir = "None" THEN [raised |-> FALSE, value |-> <<>>]
    ELSE IF cdir = "str" THEN [raised |-> TRUE, value |-> <<>>]
    ELSE IF ~file.exists THEN [raised |-> FALSE, value |-> <<>>]
    ELSE LET rs == ReadableRows(file)
         IN  IF \E j \in 1 .. Len(rs) : ~IsIsoDate(rs[j][1]) \/ ~IsFloat(rs[j][2])
             THEN [raised |-> TRUE, value |-> <<>>]
             ELSE [raised |-> FALSE,
                   value |-> [d \in {DateOf(rs[j][1]) : j \in 1 .. Len(rs)} |->
                                 FloatOf(rs[CHOOSE j \in 1 .. Len(rs) :
                                               /\ DateOf(rs[j][1]) = d
                                               /\ \A m \in (j + 1) .. Len(rs) :
                                                     DateOf(rs[m][1]) # d][2])]]

RECURSIVE CacheRows(_)
\* the rows _write_cache writes: one per date, in ascending order
CacheRows(m) ==
    IF DOMAIN m = {} THEN <<>>
    ELSE LET d == MaxOf(DOMAIN m)
         IN  Append(CacheRows([x \in DOMAIN m \ {d} |-> m[x]]),
                    <<IsoFormat(d), FloatRepr(m[d])>>)

\* get_daily_prices: what it returns or that it raises, the cache file it
\* leaves, and whether it asked the source
get_daily_prices(cdir, file, src, s, e) ==
    LET cached == _read_cache(cdir, file)
        cached_in_range == InRange(cached.value, s, e)
        \* t.history(start, end + 1 day): the closes of start .. end
        df == [d \in {x \in DOMAIN src.data : s <= x /\ x < e + 1} |-> src.data[d]]
    IN  IF cached.raised
        THEN [raised |-> TRUE, value |-> <<>>, file |-> file, fetched |-> FALSE]
        ELSE IF DOMAIN cached_in_range # {}
        THEN [raised |-> FALSE, value |-> cached_in_range, file |-> file,
              fetched |-> FALSE]
        ELSE IF src.raises
        THEN [raised |-> FALSE, value |-> <<>>, file |-> file, fetched |-> TRUE]
        ELSE IF DOMAIN df = {}
        THEN [raised |-> FALSE, value |-> <<>>, file |-> file, fetched |-> TRUE]
        ELSE [raised |-> FALSE, value |-> InRange(df, s, e),
              file |-> IF cdir # "None"
                       THEN CacheFile(TRUE, CacheRows(Merge(cached.value, df)))
                       ELSE file,
              fetched |-> TRUE]

\* what the source answers for a ticker
SourceOf(src, ticker) ==
    IF ticker \in DOMAIN src THEN src[ticker] ELSE Source(FALSE, <<>>)

\* one call client.get_daily_prices(ticker, s, e)
MarketCall(ticker, s, e) ==
    /\ LET r == get_daily_prices(cache_dir, FileOf(cache, ticker),
                                 SourceOf(source, ticker), s, e)
       IN  /\ mres' = [raised |-> r.raised, value |-> r.value, fetched |-> r.fetched]
           /\ cache' = IF r.file = FileOf(cache, ticker) THEN cache
                       ELSE [t \in DOMAIN cache \cup {ticker} |->
                                IF t = ticker THEN r.file ELSE cache[t]]
    /\ margs' = <<s, e>>
    /\ mcalls' = mcalls + 1
    /\ UNCHANGED <<cache_dir, source>>

----------------------------------------------------------------------------
(* Inputs of the price client *)

\* at most this many calls of get_daily_prices in a row
MaxCalls == 2

MarketDays == 15 .. 17

\* cache files: none; a header only; one good row; a row whose date is not
\* ISO; a row cut off after the comma; a good row after a row of one field
CacheFiles ==
    {CacheFile(FALSE, <<>>),
     CacheFile(TRUE, <<>>),
     CacheFile(TRUE, <<<<"2025-01-16", "4.0">>>>),
     CacheFile(TRUE, <<<<"16/01/2025", "4.0">>>>),
     CacheFile(TRUE, <<<<"2025-01-15", "3.0">>, <<"2025-01-16", "">>>>),
     CacheFile(TRUE, <<<<"2025-01-1">>, <<"2025-01-17", "5.0">>>>)}

\* sources: one that raises, one without data, one with a close for every
\* day, one with a gap
Sources ==
    {Source(TRUE, <<>>),
     Source(FALSE, <<>>),
     Source(FALSE, [d \in 15 .. 17 |-> F(d - 12)]),
     Source(FALSE, [d \in {15, 17} |-> F(d - 12)])}

\* client.get_daily_prices("A.NS", s, e) for some range
GetDailyPrices ==
    /\ mcalls < MaxCalls
    /\ \E s \in MarketDays : \E e \in {d \in MarketDays : s <= d} : MarketCall("A.NS", s, e)
    /\ UNCHANGED <<extVars, inferVars, parseVars, seriesVars, runVars>>

InitMarket ==
    /\ cache_dir \in {"None", "Path", "str"}
    /\ \E file \in CacheFiles : cache = [t \in {"A.NS"} |-> file]
    /\ \E src \in Sources : source = [t \in {"A.NS"} |-> src]
    /\ mres = [raised |-> FALSE, value |-> <<>>, fetched |-> FALSE]
    /\ margs = <<0, 0>>
    /\ mcalls = 0
    /\ snapshots = <<>>
    /\ txns = <<>>
    /\ i = 0
    /\ pc = "idle"
    /\ rows = <<>>
    /\ by_date = <<>>
    /\ ridx = 0
    /\ ppc = "idle"
    /\ run = "idle"
    /\ SeriesIdle
    /\ RunIdle
    /\ ExtIdle

NextMarket == GetDailyPrices

SpecMarket == InitMarket /\ [][NextMarket]_vars

----------------------------------------------------------------------------
(* market_data.py: get_multiple_prices; analysis.py: run_analysis *)

\* the tickers in use, in the order sorted() puts them
TickerOrder == <<"A.BO", "A.NS", "B.BO", "B.NS", "^NSEI">>

\* sorted(tickers)
SortedTickers(S) == SelectSeq(TickerOrder, LAMBDA t : t \in S)

RECURSIVE get_multiple_prices(_, _, _, _, _, _)
\* get_multiple_prices: the calls of get_daily_prices ticker after ticker, an
\* exception of one ending the loop; a ticker is a key of the result when its
\* prices are not empty
get_multiple_prices(cdir, files, src, tickers, s, e) ==
    IF tickers = <<>> THEN [raised |-> FALSE, value |-> <<>>, files |-> files]
    ELSE LET front == get_multiple_prices(cdir, files, src,
                                          SubSeq(tickers, 1, Len(tickers) - 1), s, e)
             ticker == tickers[Len(tickers)]
             r == get_daily_prices(cdir, FileOf(front.files, ticker),
                                   SourceOf(src, ticker), s, e)
         IN  IF front.raised THEN front
             ELSE IF r.raised THEN [raised |-> TRUE, value |-> <<>>, files |-> front.files]
             ELSE [raised |-> FALSE,
                   value |-> IF DOMAIN r.value # {}
                             THEN [t \in DOMAIN front.value \cup {ticker} |->
                                      IF t = ticker THEN r.value ELSE front.value[t]]
                             ELSE front.value,
                   files |-> IF r.file = FileOf(front.files, ticker) THEN front.files
                             ELSE [t \in DOMAIN front.files \cup {ticker} |->
                                      IF t = ticker THEN r.file ELSE front.files[t]]]

RECURSIVE InferPairs(_, _)
\* infer_transactions, the loop over the pairs from (snapshots[k-1], snapshots[k]) on
InferPairs(snaps, k) ==
    IF k > Len(snaps) THEN <<>>
    ELSE _infer_between_snapshots(snaps[k - 1], snaps[k]) \o InferPairs(snaps, k + 1)

\* infer_transactions as a function of the snapshots
infer_transactions(snaps) ==
    IF snaps = <<>> THEN <<>> ELSE BaselineBuys(snaps[1]) \o InferPairs(snaps, 2)

\* the set of tickers run_analysis collects
TickersOf(snaps) ==
    {nse_to_yfinance_ticker(AllHoldings(snaps)[j].instrument,
                            AllHoldings(snaps)[j].exchange) :
        j \in 1 .. Len(AllHoldings(snaps))}

\* the warning run_analysis appends for the missing tickers: the text and the
\* tickers it joins with ", "
MissingWarning(missing) ==
    [text |-> "Missing price data for: ", tickers |-> SortedTickers(missing)]

\* a metric the model does not evaluate: the function and its arguments
Opaque(fn, args) == [fn |-> fn, args |-> args]

\* the AnalysisResult run_analysis assembles
AnalysisResult(snaps, ts, daily_series, bench, s, e, ws) ==
    LET port_returns == [j \in 1 .. (Len(daily_series) - 1) |->
                            daily_series[j + 1].daily_return]
        current_value == daily_series[Len(daily_series)].total_value
        last_snap == snaps[Len(snaps)]
    IN  [start_date |-> s, end_date |-> e,
         xirr |-> Opaque("compute_xirr", <<ts, current_value, e>>),
         twr_annualized |-> Opaque("annualize_return", <<daily_series, e - s>>),
         benchmark_twr |-> Opaque("annualize_return", <<bench, e - s>>),
         alpha |-> Opaque("compute_alpha", <<daily_series, bench, e - s>>),
         beta |-> Opaque("compute_beta", <<port_returns, bench>>),
         sharpe |-> Opaque("compute_sharpe_ratio", <<port_returns>>),
         sortino |-> Opaque("compute_sortino_ratio", <<port_returns>>),
         max_drawdown |-> Opaque("compute_max_drawdown", <<daily_series>>),
         max_drawdown_date |-> Opaque("compute_max_drawdown", <<daily_series>>),
         var_95_pct |-> Opaque("compute_var_95", <<port_returns, current_value>>),
         herfindahl |-> Opaque("compute_concentration", <<last_snap>>),
         top_5_concentration |-> Opaque("compute_concentration", <<last_snap>>),
         warnings |-> ws]

\* RunFetch naming every ticker in the warning
RunFetch_WarnsAlways ==
    /\ run = "analysing"
    /\ LET s == snapshots[1].date
           e == snapshots[Len(snapshots)].date
           tickers == TickersOf(snapshots)
           got == get_multiple_prices(cache_dir, cache, source, SortedTickers(tickers), s, e)
           bench == get_daily_prices(cache_dir, FileOf(got.files, "^NSEI"),
                                     SourceOf(source, "^NSEI"), s, e)
       IN  /\ txns' = infer_transactions(snapshots)
           /\ start' = s
           /\ end' = e
           /\ asked' = SortedTickers(tickers) \o <<"^NSEI">>
           /\ prices' = got.value
           /\ benchmark_prices' = bench.value
           /\ warnings' = <<MissingWarning(tickers)>>
           /\ run' = IF got.raised \/ bench.raised THEN "raised" ELSE "fetched"
    /\ UNCHANGED <<extVars, snapshots, i, pc, rows, by_date, ridx, ppc, holdings_state, total_cost,
                   series, prev_value, current, spc, marketVars, _EMPTY_RESULT, result,
                   touched, calls>>

\* run_analysis from infer_transactions to the warning about missing tickers
RunFetch ==
    /\ run = "analysing"
    /\ LET s == snapshots[1].date
           e == snapshots[Len(snapshots)].date
           tickers == TickersOf(snapshots)
           got == get_multiple_prices(cache_dir, cache, source, SortedTickers(tickers), s, e)
           bench == get_daily_prices(cache_dir, FileOf(got.files, "^NSEI"),
                                     SourceOf(source, "^NSEI"), s, e)
           missing == tickers \ DOMAIN got.value
       IN  /\ txns' = infer_transactions(snapshots)
           /\ start' = s
           /\ end' = e
           /\ asked' = SortedTickers(tickers) \o <<"^NSEI">>
           /\ prices' = got.value
           /\ benchmark_prices' = bench.value
           /\ warnings' = IF missing # {} THEN <<MissingWarning(missing)>> ELSE <<>>
           /\ run' = IF got.raised \/ bench.raised THEN "raised" ELSE "fetched"
    /\ UNCHANGED <<extVars, snapshots, i, pc, rows, by_date, ridx, ppc, holdings_state, total_cost,
                   series, prev_value, current, spc, marketVars, _EMPTY_RESULT, result,
                   touched, calls>>

\* run_analysis calling build_daily_portfolio_series(snapshots, transactions,
\* prices, start, end)
RunBuildSeries ==
    /\ run = "fetched"
    /\ spc = "idle"
    /\ spc' = "start"
    /\ UNCHANGED <<extVars, inferVars, parseVars, marketVars, runVars, prices, start, end,
                   holdings_state, total_cost, series, prev_value, current>>

\* run_analysis from the return of the series to its own return
RunResult ==
    /\ run = "fetched"
    /\ spc = "returned"
    /\ IF series = <<>>
       THEN run' = "empty_result" /\ UNCHANGED result
       ELSE /\ run' = "result"
            /\ result' = AnalysisResult(snapshots, txns, series, benchmark_prices, start,
                                        end, warnings)
    /\ UNCHANGED <<extVars, snapshots, txns, i, pc, rows, by_date, ridx, ppc, seriesVars,
                   marketVars, _EMPTY_RESULT, warnings, benchmark_prices, asked, touched,
                   calls>>

\* the AnalysisResult the invocation returned: the module-level object itself
\* after "return _EMPTY_RESULT, ..."
Returned == IF run = "empty_result" THEN _EMPTY_RESULT ELSE result

\* a line of the caller's, in the shape of the warnings of the model
CallerNote == [text |-> "note of the caller", tickers |-> <<>>]

\* the caller appends a line of its own to the warnings of the AnalysisResult
\* it was handed
CallerAppend ==
    /\ run \in {"empty_result", "result"}
    /\ ~touched
    /\ touched' = TRUE
    /\ IF run = "empty_result"
       THEN /\ _EMPTY_RESULT' =
                  [_EMPTY_RESULT EXCEPT !.warnings = Append(@, CallerNote)]
            /\ UNCHANGED result
       ELSE /\ result' = [result EXCEPT !.warnings = Append(@, CallerNote)]
            /\ UNCHANGED _EMPTY_RESULT
    /\ UNCHANGED <<extVars, inferVars, parseVars, seriesVars, marketVars, warnings,
                   benchmark_prices, asked, calls>>

----------------------------------------------------------------------------
(* Inputs of run_analysis *)

\* at most this many rows in the sheet
MaxRunRows == 2
\* at most this many invocations of run_analysis in the process
MaxRuns == 2

\* price sources: a close for each ticker; A.NS raising; B.NS and A.BO
\* without data; every ticker raising
RunSources ==
    {[t \in {"A.BO", "A.NS", "B.NS", "^NSEI"} |->
         CASE t = "A.NS" -> Source(FALSE, [d \in 15 .. 20 |-> F(d - 12)])
           [] t = "A.BO" -> Source(FALSE, [d \in {16} |-> F(4)])
           [] t = "B.NS" -> Source(FALSE, [d \in {15, 20} |-> F(d - 14)])
           [] t = "^NSEI" -> Source(FALSE, [d \in {15, 20} |-> F(d - 10)])],
     [t \in {"A.BO", "A.NS", "B.NS", "^NSEI"} |->
         CASE t = "A.NS" -> Source(TRUE, <<>>)
           [] t = "A.BO" -> Source(FALSE, [d \in {16} |-> F(4)])
           [] t = "B.NS" -> Source(FALSE, [d \in {15, 20} |-> F(d - 14)])
           [] t = "^NSEI" -> Source(FALSE, [d \in {15, 20} |-> F(d - 10)])],
     [t \in {"A.BO", "A.NS", "B.NS", "^NSEI"} |->
         CASE t = "A.NS" -> Source(FALSE, [d \in {17} |-> F(5)])
           [] t = "A.BO" -> Source(FALSE, <<>>)
           [] t = "B.NS" -> Source(FALSE, <<>>)
           [] t = "^NSEI" -> Source(FALSE, [d \in {15, 20} |-> F(d - 10)])],
     [t \in {"A.BO", "A.NS", "B.NS", "^NSEI"} |-> Source(TRUE, <<>>)]}

\* the rows the sheet is filled from
RunRows ==
    {SheetRow("2025-01-15", "A", "1", "NSE"), SheetRow("2025-01-20", "A", "2", "NSE"),
     SheetRow("2025-01-15", "B", "1", "NSE"), SheetRow("2025-01-20", "B", "1", "NSE"),
     SheetRow("2025-01-15", "A", "1", "BSE")}

\* the arguments and the surroundings of an invocation: the rows of the
\* sheet, no cache directory (main calls run_analysis(rows)), a price source
RunInputs ==
    /\ \E n \in 0 .. MaxRunRows : rows \in [1 .. n -> RunRows]
    /\ source \in RunSources
    /\ cache_dir = "None"
    /\ cache = <<>>

InitRun ==
    /\ RunInputs
    /\ mres = [raised |-> FALSE, value |-> <<>>, fetched |-> FALSE]
    /\ margs = <<0, 0>>
    /\ mcalls = 0
    /\ by_date = <<>>
    /\ ridx = 0
    /\ ppc = "start"
    /\ run = "called"
    /\ snapshots = <<>>
    /\ txns = <<>>
    /\ i = 0
    /\ pc = "idle"
    /\ SeriesIdle
    /\ _EMPTY_RESULT = EmptyResult
    /\ result = EmptyResult
    /\ warnings = <<>>
    /\ benchmark_prices = <<>>
    /\ asked = <<>>
    /\ touched = FALSE
    /\ calls = 1
    /\ ExtIdle

\* the process calls run_analysis once more, on new rows and a new source
RunAgain ==
    /\ run \in {"empty_result", "result"}
    /\ calls < MaxRuns
    /\ calls' = calls + 1
    /\ \E n \in 0 .. MaxRunRows : rows' \in [1 .. n -> RunRows]
    /\ source' \in RunSources
    /\ by_date' = <<>>
    /\ ridx' = 0
    /\ ppc' = "start"
    /\ run' = "called"
    /\ snapshots' = <<>>
    /\ txns' = <<>>
    /\ prices' = <<>>
    /\ start' = 0
    /\ end' = 0
    /\ holdings_state' = <<>>
    /\ total_cost' = F(0)
    /\ series' = <<>>
    /\ prev_value' = None
    /\ current' = 0
    /\ spc' = "idle"
    /\ result' = EmptyResult
    /\ warnings' = <<>>
    /\ benchmark_prices' = <<>>
    /\ asked' = <<>>
    /\ touched' = FALSE
    /\ UNCHANGED <<extVars, i, pc, cache_dir, cache, mres, margs, mcalls, _EMPTY_RESULT>>

NextRun ==
    \/ ParseEmpty \/ ParseRow \/ ParseBuild
    \/ RunEmpty \/ RunAnalyse \/ RunFetch \/ RunBuildSeries
    \/ SeriesStart \/ SeriesDay \/ SeriesReturn
    \/ RunResult \/ CallerAppend \/ RunAgain

SpecRun == InitRun /\ [][NextRun]_vars

\* build_daily_portfolio_series as the tests call it and as run_analysis
\* calls it
SpecCalls == (InitSeries \/ InitRun) /\ [][NextSeries \/ NextRun]_vars

----------------------------------------------------------------------------
\* C11: build_daily_portfolio_series returns one entry for every calendar day
\* of [start, end], ascending, without gap or duplicate, for non-empty
\* snapshots and [] for empty ones; run_analysis calls it with the first and
\* the last snapshot date as start and end.
C11_OneEntryPerDay ==
    /\ SeriesCoversRange
    /\ (run \in {"fetched", "result"} /\ spc # "idle") =>
          /\ snapshots # <<>>
          /\ start = snapshots[1].date
          /\ end = snapshots[Len(snapshots)].date
          /\ \A k \in 1 .. Len(snapshots) :
                start <= snapshots[k].date /\ snapshots[k].date <= end

C11_Witness ==
    /\ run = "result"
    /\ Len(snapshots) = 2
    /\ Len(series) = 6
    /\ series[1].date = 15 /\ series[6].date = 20
    /\ \E j \in 1 .. Len(txns) : txns[j].date = 20

----------------------------------------------------------------------------
(* Vocabulary of the properties of run_analysis *)

\* the price source has no price for the ticker in [start, end]: it raises
\* or has no close for any day of the range
NoPriceInRange(t) ==
    \/ SourceOf(source, t).raises
    \/ DOMAIN InRange(SourceOf(source, t).data, start, end) = {}

\* the ticker is named in a warning of the result
Named(t) ==
    \E j \in 1 .. Len(result.warnings) :
        \E m \in 1 .. Len(result.warnings[j].tickers) : result.warnings[j].tickers[m] = t

\* the instruments whose valuation goes by the ticker
InstrumentsOf(t) == {inst \in Instruments : InstrumentTicker(snapshots, inst) = t}

\* the LTP of the most recent snapshot up to a day that holds the instrument
LastLtp(inst, day) ==
    ltp_fallback(snapshots)[inst][MaxOf(LtpDatesUpTo(inst, day))]

C18_EmptyInputEmptyResult ==
    /\ rows = <<>> => run \in {"called", "empty_result"}
    /\ (rows = <<>> /\ run = "empty_result" /\ ~touched) =>
          /\ Returned = EmptyResult
          /\ series = <<>>
          /\ txns = <<>>
          /\ asked = <<>>

\* C19: when the source raises or has no data for the range, get_daily_prices
\* does not raise, whatever the cache holds, and returns {} when it asked the
\* source; get_multiple_prices then has no key for the ticker.
C19_FailedFetchNeverFatal ==
    (mcalls > 0 /\ (\/ SourceOf(source, "A.NS").raises
                    \/ DOMAIN InRange(SourceOf(source, "A.NS").data,
                                      margs[1], margs[2]) = {})) =>
        /\ ~mres.raised
        /\ mres.fetched =>
              /\ mres.value = <<>>
              /\ "A.NS" \notin
                    DOMAIN get_multiple_prices(cache_dir, cache, source, <<"A.NS">>,
                                               margs[1], margs[2]).value

\* C20: what an invocation returns carries nothing a caller has put into the
\* objects of an earlier invocation, and the module-level result stays as the
\* module created it.
C20_NoSharedState ==
    /\ (run \in {"empty_result", "result"} /\ ~touched) =>
          \A j \in 1 .. Len(Returned.warnings) : Returned.warnings[j] # CallerNote
    /\ _EMPTY_RESULT = EmptyResult

----------------------------------------------------------------------------
(* analysis.py: the metrics *)

\* an Optional[date] that is set
Some(d) == <<d>>

RECURSIVE SortedDesc(_)
\* sorted(values, reverse=True)
SortedDesc(ws) ==
    IF ws = <<>> THEN <<>>
    ELSE LET m == CHOOSE j \in 1 .. Len(ws) : \A k \in 1 .. Len(ws) : FLe(ws[k], ws[j])
         IN  <<ws[m]>> \o SortedDesc(SubSeq(ws, 1, m - 1) \o SubSeq(ws, m + 1, Len(ws)))

RECURSIVE FSum(_)
\* sum(...) of a list of floats
FSum(xs) == IF xs = <<>> THEN F(0) ELSE FAdd(FSum(SubSeq(xs, 1, Len(xs) - 1)), xs[Len(xs)])

\* compute_concentration adding the first five weights in the order given
compute_concentration_FirstFive(ws) ==
    IF ws = <<>> THEN <<F(0), F(0)>>
    ELSE <<FSum([j \in 1 .. Len(ws) |-> FMul(ws[j], ws[j])]),
           FSum(SubSeq(ws, 1, IF Len(ws) < 5 THEN Len(ws) ELSE 5))>>

compute_concentration(ws) ==
    IF ws = <<>> THEN <<F(0), F(0)>>
    ELSE LET values == SortedDesc(ws)
             hhi == FSum([j \in 1 .. Len(values) |-> FMul(values[j], values[j])])
             top5 == FSum(SubSeq(values, 1, IF Len(values) < 5 THEN Len(values) ELSE 5))
         IN  <<hhi, top5>>

RECURSIVE DrawdownLoop_TiesLast(_, _, _, _, _)
\* the loop of compute_max_drawdown taking a drawdown that equals the deepest
\* so far for a new trough
DrawdownLoop_TiesLast(s, j, running_max, max_dd, trough_date) ==
    IF j > Len(s) THEN <<max_dd, trough_date>>
    ELSE LET rm == FMax(running_max, s[j].total_value)
             dd == FSub(F(1), FDiv(s[j].total_value, rm))
             deeper == FLt(F(0), rm) /\ FLe(max_dd, dd)
         IN  DrawdownLoop_TiesLast(s, j + 1, rm, IF deeper THEN dd ELSE max_dd,
                                   IF deeper THEN Some(s[j].date) ELSE trough_date)

RECURSIVE DrawdownLoop(_, _, _, _, _)
\* the loop of compute_max_drawdown from the j-th entry on
DrawdownLoop(s, j, running_max, max_dd, trough_date) ==
    IF j > Len(s) THEN <<max_dd, trough_date>>
    ELSE LET rm == IF FLt(running_max, s[j].total_value) THEN s[j].total_value
                   ELSE running_max
             dd == FSub(F(1), FDiv(s[j].total_value, rm))
             deeper == FLt(F(0), rm) /\ FLt(max_dd, dd)
         IN  DrawdownLoop(s, j + 1, rm, IF deeper THEN dd ELSE max_dd,
                          IF deeper THEN Some(s[j].date) ELSE trough_date)

compute_max_drawdown(s) ==
    IF s = <<>> THEN <<F(0), None>>
    ELSE DrawdownLoop(s, 1, s[1].total_value, F(0), None)

RECURSIVE ChainLink(_, _)
\* the product of 1.0 + daily_return over the entries from the j-th on
ChainLink(s, j) ==
    IF j > Len(s) THEN F(1)
    ELSE FMul(FAdd(F(1), s[j].daily_return), ChainLink(s, j + 1))

\* compute_twr chain-linking the first entry as well
compute_twr_FromFirst(s) ==
    IF Len(s) < 2 THEN F(0) ELSE FSub(ChainLink(s, 1), F(1))

\* compute_twr adding the daily returns up
compute_twr_Additive(s) ==
    IF Len(s) < 2 THEN F(0)
    ELSE FSum([j \in 1 .. Len(s) - 1 |-> s[j + 1].daily_return])

compute_twr(s) ==
    IF Len(s) < 2 THEN F(0) ELSE FSub(ChainLink(s, 2), F(1))

----------------------------------------------------------------------------
(* numpy: binary floating point.  compute_sharpe_ratio and                 *)
(* compute_sortino_ratio branch on a computed standard deviation being     *)
(* exactly 0, so np.mean and np.std are computed with the rounding of      *)
(* binary floating point (round to nearest, ties to even), the mantissa    *)
(* narrowed from 53 bits to MantissaBits; the exponent is not bounded.     *)

MantissaBits == 3

\* the result of 0.0 / 0.0 in numpy
NaN == <<0, 0>>

RECURSIVE Pow2(_)
Pow2(k) == IF k = 0 THEN 1 ELSE 2 * Pow2(k - 1)

RECURSIVE Normalized(_, _)
\* a > 0 as <<m, e>> with a = m * 2^e and 2^(MantissaBits-1) <= m < 2^MantissaBits
Normalized(a, e) ==
    IF FLt(a, F(Pow2(MantissaBits - 1))) THEN Normalized(FMul(a, F(2)), e - 1)
    ELSE IF FLe(F(Pow2(MantissaBits)), a) THEN Normalized(FDiv(a, F(2)), e + 1)
    ELSE <<a, e>>

\* the floating-point number nearest to the real x, ties to the even mantissa
RoundF(x) ==
    IF x[1] = 0 THEN F(0)
    ELSE LET sgn == IF x[1] < 0 THEN -1 ELSE 1
             ne == Normalized(<<Abs(x[1]), x[2]>>, 0)
             a == ne[1]
             fl == a[1] \div a[2]
             twice == 2 * (a[1] - fl * a[2])
             m == IF twice > a[2] THEN fl + 1
                  ELSE IF twice < a[2] THEN fl
                  ELSE IF fl % 2 = 0 THEN fl ELSE fl + 1
         IN  IF ne[2] >= 0 THEN Rat(sgn * m * Pow2(ne[2]), 1)
             ELSE Rat(sgn * m, Pow2(-ne[2]))

RAdd(x, y) == RoundF(FAdd(x, y))
RSub(x, y) == RoundF(FSub(x, y))
RMul(x, y) == RoundF(FMul(x, y))
RDiv(x, y) == RoundF(FDiv(x, y))

RECURSIVE RSum(_)
\* np.add.reduce of fewer than 8 floats: a plain left-to-right loop
RSum(xs) == IF xs = <<>> THEN F(0) ELSE RAdd(RSum(SubSeq(xs, 1, Len(xs) - 1)), xs[Len(xs)])

\* np.mean of a non-empty list
NpMean(xs) == RDiv(RSum(xs), F(Len(xs)))

\* the square of np.std(xs, ddof=1): the squared deviations from the computed
\* mean, summed and divided by n - 1; 0.0 / 0 = nan for a single value
NpVar1(xs) ==
    LET arrmean == NpMean(xs)
        x == [j \in 1 .. Len(xs) |-> RSub(xs[j], arrmean)]
        xx == [j \in 1 .. Len(xs) |-> RMul(x[j], x[j])]
    IN  IF Len(xs) - 1 = 0 THEN NaN ELSE RDiv(RSum(xx), F(Len(xs) - 1))

\* the float mean / sqrt(var) * math.sqrt(252), kept as its two rational parts;
\* nan when var is nan
Ratio(mean, var) == [mean |-> mean, var |-> var]

\* the float 0.0 a ratio function returns
ZeroRatio == Ratio(F(0), F(1))

\* excess = [r - rf_daily for r in daily_returns]
Excess(rs, rf) == [j \in 1 .. Len(rs) |-> RSub(rs[j], RDiv(rf, F(252)))]

compute_sharpe_ratio(rs, rf) ==
    IF Len(rs) < 2 THEN ZeroRatio
    ELSE LET excess == Excess(rs, rf)
             var == NpVar1(excess)
         IN  IF var = F(0) THEN ZeroRatio
             ELSE Ratio(NpMean(excess), var)

compute_sortino_ratio(rs, rf) ==
    IF Len(rs) < 2 THEN ZeroRatio
    ELSE LET excess == Excess(rs, rf)
             downside == SelectSeq(excess, LAMBDA e : FLt(e, F(0)))
         IN  IF downside = <<>> THEN ZeroRatio
             ELSE IF NpVar1(downside) = F(0) THEN ZeroRatio
             ELSE Ratio(NpMean(excess), NpVar1(downside))

----------------------------------------------------------------------------
(* compute_xirr.  The dates lie whole years (multiples of 365 days) apart, *)
(* so that (1.0 + rate) ** ((d - d0).days / 365.0) is a rational.           *)

\* the least whole t with 0.01 ** t == 0.0 in binary64 (0.01 ** 161 = 1e-322)
UnderflowYears == 162

\* the bracket brentq is given
RateLo == Rat(-99, 100)
RateHi == F(10)

\* the rates of the bracket a root is looked for at
RateGrid == {RateLo, Rat(-1, 2), F(0), Rat(1, 10), F(1), RateHi}

\* cashflows = [(t.date, t.amount) for t in transactions] + [(end_date, current_value)]
Cashflows(ts, cv, e) ==
    [j \in 1 .. Len(ts) |-> <<ts[j].date, ts[j].amount>>] \o <<<<e, cv>>>>

YearsFrom(d0, d) == (d - d0) \div 365

RECURSIVE FPow(_, _)
FPow(b, t) == IF t = 0 THEN F(1) ELSE IF t < 0 THEN FDiv(F(1), FPow(b, -t))
              ELSE FMul(b, FPow(b, t - 1))

\* evaluating npv(rate) raises: at rate -0.99 the power underflows to 0.0 for a
\* cash flow UnderflowYears or more after d0 (ZeroDivisionError) and overflows
\* for one as long before it (OverflowError)
NpvRaises(cfs) ==
    \E j \in 1 .. Len(cfs) : Abs(YearsFrom(cfs[1][1], cfs[j][1])) >= UnderflowYears

npv(rate, cfs) ==
    FSum([j \in 1 .. Len(cfs) |->
             FDiv(cfs[j][2], FPow(FAdd(F(1), rate), YearsFrom(cfs[1][1], cfs[j][1])))])

\* what brentq(npv, -0.99, 10.0) can return: an end of the bracket where npv
\* is 0, else a point inside where it is 0; ValueError when npv has the same
\* sign at both ends
BrentqRaises(cfs) ==
    \/ FLt(F(0), npv(RateLo, cfs)) /\ FLt(F(0), npv(RateHi, cfs))
    \/ FLt(npv(RateLo, cfs), F(0)) /\ FLt(npv(RateHi, cfs), F(0))

BrentqRoots(cfs) ==
    IF npv(RateLo, cfs) = F(0) THEN {RateLo}
    ELSE IF npv(RateHi, cfs) = F(0) THEN {RateHi}
    ELSE {r \in RateGrid : npv(r, cfs) = F(0)}

\* the outcomes of compute_xirr
compute_xirr(ts, cv, e) ==
    IF ts = <<>> THEN {[raised |-> FALSE, rate |-> F(0)]}
    ELSE LET cfs == Cashflows(ts, cv, e)
         IN  IF NpvRaises(cfs) THEN {[raised |-> TRUE, rate |-> F(0)]}
             ELSE IF BrentqRaises(cfs) THEN {[raised |-> FALSE, rate |-> F(0)]}
             ELSE {[raised |-> FALSE, rate |-> r] : r \in BrentqRoots(cfs)}

----------------------------------------------------------------------------
(* The metric functions applied to drawn arguments *)

\* at most this many entries in a series given to a metric
MaxLen == 3
\* at most this many daily returns given to a ratio
MaxReturns == 5
\* at most this many weights
MaxWeights == 6
\* at most this many transactions given to compute_xirr
MaxCashflows == 2

MetricValues == {F(0), F(1), F(2), F(3)}
MetricReturns == {Rat(-1, 2), F(0), F(1)}
\* daily returns that are floating-point numbers of MantissaBits bits
ReturnValues == {Rat(-7, 8), Rat(-1, 4), Rat(7, 8)}
\* risk-free rates whose daily part is such a number: 0.0 and 63.0 (0.25 a day)
RiskFreeRates == {F(0), F(63)}
WeightValues == {Rat(1, 10), Rat(1, 5), F(1)}
\* cash flows: BUYs and SELLs on day 0, a year and two years later, and a BUY
\* two hundred years before the others
XirrDays == {0, 365, 730}
FarDay == -365 * 200
XirrTxns ==
    {Transaction(d, "A", "BUY", 1, FNeg(a), a) : d \in XirrDays, a \in {F(-1), F(-2)}}
      \cup {Transaction(d, "A", "SELL", 1, a, a) : d \in XirrDays, a \in {F(1)}}
      \cup {Transaction(0, "A", "BUY", 10, F(2000), F(-20000)),
            Transaction(FarDay, "A", "BUY", 1, F(1), F(-1))}
XirrValues == {F(0), F(1), F(2), F(4), F(22000)}

\* the inputs for which a root of npv inside the bracket, if there must be
\* one, is a rate of RateGrid
XirrInput(ts, cv, e) ==
    (ts # <<>> /\ ~NpvRaises(Cashflows(ts, cv, e))
       /\ ~BrentqRaises(Cashflows(ts, cv, e)))
      => BrentqRoots(Cashflows(ts, cv, e)) # {}

MetricInputsIdle ==
    /\ snapshots = <<>>
    /\ i = 0
    /\ pc = "idle"
    /\ rows = <<>>
    /\ by_date = <<>>
    /\ ridx = 0
    /\ ppc = "idle"
    /\ run = "idle"
    /\ prices = <<>>
    /\ start = 0
    /\ holdings_state = <<>>
    /\ total_cost = F(0)
    /\ prev_value = None
    /\ current = 0
    /\ spc = "idle"
    /\ MarketIdle
    /\ RunIdle
    /\ SheetIdle
    /\ metric = [fn |-> "none", value |-> None]

\* a series for compute_max_drawdown and compute_twr
InitMetricSeries ==
    /\ \E n \in 0 .. MaxLen :
         \E tv \in [1 .. n -> MetricValues] : \E dr \in [1 .. n -> MetricReturns] :
           series = [j \in 1 .. n |-> DailyPortfolioValue(j, tv[j], F(1), dr[j])]
    /\ txns = <<>> /\ end = 0 /\ cur_value = F(0)
    /\ daily_returns = <<>> /\ risk_free_annual = F(0)
    /\ weights = <<>>

\* daily returns and a risk-free rate for the ratios
InitMetricReturns ==
    /\ \E n \in 0 .. MaxReturns : daily_returns \in [1 .. n -> ReturnValues]
    /\ risk_free_annual \in RiskFreeRates
    /\ series = <<>> /\ txns = <<>> /\ end = 0 /\ cur_value = F(0)
    /\ weights = <<>>

\* position weights for compute_concentration
InitMetricWeights ==
    /\ \E n \in 0 .. MaxWeights : weights \in [1 .. n -> WeightValues]
    /\ series = <<>> /\ txns = <<>> /\ end = 0 /\ cur_value = F(0)
    /\ daily_returns = <<>> /\ risk_free_annual = F(0)

\* transactions, a terminal value and an end date for compute_xirr
InitMetricXirr ==
    /\ \E n \in 0 .. MaxCashflows : txns \in [1 .. n -> XirrTxns]
    /\ cur_value \in XirrValues
    /\ end \in {365, 730}
    /\ XirrInput(txns, cur_value, end)
    /\ series = <<>> /\ daily_returns = <<>> /\ risk_free_annual = F(0)
    /\ weights = <<>>

InitMetrics ==
    /\ MetricInputsIdle
    /\ InitMetricSeries \/ InitMetricReturns \/ InitMetricWeights \/ InitMetricXirr

\* the arguments drawn are those of the functions of a series, of the ratios,
\* of compute_concentration, of compute_xirr
SeriesDrawn == daily_returns = <<>> /\ weights = <<>> /\ txns = <<>>
ReturnsDrawn == series = <<>> /\ weights = <<>> /\ txns = <<>>
WeightsDrawn == series = <<>> /\ daily_returns = <<>> /\ txns = <<>>
XirrDrawn == series = <<>> /\ daily_returns = <<>> /\ weights = <<>>

\* what a metric function leaves alone: everything but its result
MetricFrame ==
    UNCHANGED <<inferVars, parseVars, seriesVars, marketVars, runVars, sheetVars,
                daily_returns, risk_free_annual, weights, cur_value>>

ComputeMaxDrawdown ==
    /\ metric.fn = "none"
    /\ SeriesDrawn
    /\ metric' = [fn |-> "compute_max_drawdown", value |-> compute_max_drawdown(series)]
    /\ MetricFrame

ComputeTwr ==
    /\ metric.fn = "none"
    /\ SeriesDrawn
    /\ metric' = [fn |-> "compute_twr", value |-> compute_twr(series)]
    /\ MetricFrame

ComputeSharpeRatio ==
    /\ metric.fn = "none"
    /\ ReturnsDrawn
    /\ metric' = [fn |-> "compute_sharpe_ratio",
                  value |-> compute_sharpe_ratio(daily_returns, risk_free_annual)]
    /\ MetricFrame

ComputeSortinoRatio ==
    /\ metric.fn = "none"
    /\ ReturnsDrawn
    /\ metric' = [fn |-> "compute_sortino_ratio",
                  value |-> compute_sortino_ratio(daily_returns, risk_free_annual)]
    /\ MetricFrame

ComputeConcentration ==
    /\ metric.fn = "none"
    /\ WeightsDrawn
    /\ metric' = [fn |-> "compute_concentration", value |-> compute_concentration(weights)]
    /\ MetricFrame

ComputeXirr ==
    /\ metric.fn = "none"
    /\ XirrDrawn
    /\ \E out \in compute_xirr(txns, cur_value, end) :
         metric' = [fn |-> "compute_xirr", value |-> out]
    /\ MetricFrame

NextMetrics ==
    \/ ComputeMaxDrawdown
    \/ ComputeTwr
    \/ ComputeSharpeRatio
    \/ ComputeSortinoRatio
    \/ ComputeConcentration
    \/ ComputeXirr

SpecMetrics == InitMetrics /\ [][NextMetrics]_vars

----------------------------------------------------------------------------
(* Vocabulary of the properties of the metrics *)

\* the largest total_value among the first j entries
RunningMax(s, j) ==
    LET m == CHOOSE k \in 1 .. j : \A l \in 1 .. j : FLe(s[l].total_value, s[k].total_value)
    IN  s[m].total_value

\* the days that count: those whose running maximum is positive
DrawdownDays(s) == {j \in 1 .. Len(s) : FLt(F(0), RunningMax(s, j))}

\* 1 - total_value / running_max on a day that counts
DrawdownOn(s, j) == FSub(F(1), FDiv(s[j].total_value, RunningMax(s, j)))

\* the series falls below its running maximum on some day
FallsBelowMax(s) == \E j \in DrawdownDays(s) : FLt(F(0), DrawdownOn(s, j))

\* the first day that attains the largest drawdown
DeepestDay(s) ==
    CHOOSE j \in DrawdownDays(s) :
        /\ \A k \in DrawdownDays(s) : FLe(DrawdownOn(s, k), DrawdownOn(s, j))
        /\ \A k \in DrawdownDays(s) : k < j => FLt(DrawdownOn(s, k), DrawdownOn(s, j))

\* C21: compute_max_drawdown returns the largest 1 - total_value / running_max
\* over the days whose running maximum is positive, with the date of the first
\* day attaining it, and (0, None) for an empty series and for a series that
\* never falls below its running maximum.
C21_MaxDrawdownAndFirstTrough ==
    metric.fn = "compute_max_drawdown" =>
        /\ FallsBelowMax(series) =>
              /\ metric.value[1] = DrawdownOn(series, DeepestDay(series))
              /\ metric.value[2] = Some(series[DeepestDay(series)].date)
        /\ ~FallsBelowMax(series) => metric.value = <<F(0), None>>
        /\ series = <<>> => metric.value = <<F(0), None>>
        /\ (\A j \in 2 .. Len(series) :
               FLt(series[j - 1].total_value, series[j].total_value)) =>
              metric.value = <<F(0), None>>

C21_Witness ==
    /\ metric.fn = "compute_max_drawdown"
    /\ Len(series) = 3
    /\ series[1].total_value = F(2)
    /\ series[2].total_value = F(1)
    /\ series[3].total_value = F(1)
    /\ metric.value = <<Rat(1, 2), Some(2)>>

\* the product of 1 + daily_return over the entries whose index is in J
ProductOver(s, J) ==
    LET RECURSIVE P(_)
        P(K) == IF K = {} THEN F(1)
                ELSE LET k == CHOOSE x \in K : TRUE
                     IN  FMul(FAdd(F(1), s[k].daily_return), P(K \ {k}))
    IN  P(J)

\* C22: compute_twr returns the product of (1 + daily_return) over every entry
\* but the first, minus 1, whatever the first entry's daily_return, and 0 for
\* a series of fewer than 2 entries.
C22_ChainLinkedExceptFirst ==
    metric.fn = "compute_twr" =>
        /\ Len(series) >= 2 =>
              /\ metric.value = FSub(ProductOver(series, 2 .. Len(series)), F(1))
              /\ \A r \in MetricReturns :
                    compute_twr([series EXCEPT ![1].daily_return = r]) = metric.value
        /\ Len(series) < 2 => metric.value = F(0)

C22_Witness ==
    /\ metric.fn = "compute_twr"
    /\ Len(series) = 3
    /\ series[1].daily_return = F(1)
    /\ series[2].daily_return = F(1)
    /\ series[3].daily_return = Rat(-1, 2)
    /\ metric.value = F(0)

\* the sets of min(5, n) positions of a list of n weights
FivePositions(ws) ==
    {J \in SUBSET (1 .. Len(ws)) :
        Cardinality(J) = (IF Len(ws) < 5 THEN Len(ws) ELSE 5)}

\* the sum of the weights at the positions J
WeightAt(ws, J) ==
    LET RECURSIVE W(_)
        W(K) == IF K = {} THEN F(0)
                ELSE LET k == CHOOSE x \in K : TRUE IN FAdd(ws[k], W(K \ {k}))
    IN  W(J)

\* the sum of the squares of all the weights
SumOfSquares(ws) ==
    LET RECURSIVE Q(_)
        Q(K) == IF K = {} THEN F(0)
                ELSE LET k == CHOOSE x \in K : TRUE IN FAdd(FMul(ws[k], ws[k]), Q(K \ {k}))
    IN  Q(1 .. Len(ws))

\* C25: compute_concentration returns (sum of squared weights, sum of the 5
\* largest weights): (0, 0) for an empty map, (1, 1) for a single weight of 1,
\* and only the 5 largest of more than 5 weights count, whatever their order.
C25_HerfindahlAndTopFive ==
    metric.fn = "compute_concentration" =>
        /\ metric.value[1] = SumOfSquares(weights)
        /\ \E J \in FivePositions(weights) :
              /\ metric.value[2] = WeightAt(weights, J)
              /\ \A K \in FivePositions(weights) :
                    FLe(WeightAt(weights, K), WeightAt(weights, J))
        /\ weights = <<>> => metric.value = <<F(0), F(0)>>
        /\ weights = <<F(1)>> => metric.value = <<F(1), F(1)>>

C25_Witness ==
    /\ metric.fn = "compute_concentration"
    /\ weights = <<Rat(1, 10), Rat(1, 5), Rat(1, 5), Rat(1, 5), Rat(1, 5), Rat(1, 5)>>
    /\ metric.value[2] = F(1)

\* the return less the daily risk-free rate is negative
NegativeExcess(r, rf) == FLt(r, FDiv(rf, F(252)))

\* every return of the list is the same
ConstantReturns(rs) == \A j, k \in 1 .. Len(rs) : rs[j] = rs[k]

\* C23: compute_sharpe_ratio and compute_sortino_ratio return 0 for fewer than
\* 2 daily returns; Sharpe returns 0 for a constant return series and Sortino
\* for a series without a day of negative excess return.
C23_ZeroWithoutDeviation ==
    /\ metric.fn \in {"compute_sharpe_ratio", "compute_sortino_ratio"} =>
          (Len(daily_returns) < 2 => metric.value = ZeroRatio)
    /\ (metric.fn = "compute_sharpe_ratio" /\ ConstantReturns(daily_returns)) =>
          metric.value = ZeroRatio
    /\ (metric.fn = "compute_sortino_ratio"
          /\ \A j \in 1 .. Len(daily_returns) :
                ~NegativeExcess(daily_returns[j], risk_free_annual)) =>
          metric.value = ZeroRatio

\* C30: for 2 daily returns or more compute_sortino_ratio returns a defined
\* number: it takes no sample standard deviation of fewer than 2 values.
C30_SortinoDefined ==
    (metric.fn = "compute_sortino_ratio" /\ Len(daily_returns) >= 2) =>
        metric.value.var # NaN

\* the net present value at a rate: every transaction's signed amount and
\* current_value at end_date, discounted from the first transaction's date
NetPresentValue(rate) ==
    LET d0 == txns[1].date
        disc(d) == FPow(FAdd(F(1), rate), YearsFrom(d0, d))
    IN  FAdd(FSum([j \in 1 .. Len(txns) |-> FDiv(txns[j].amount, disc(txns[j].date))]),
             FDiv(cur_value, disc(end)))

\* the net present value is positive at both ends of [-0.99, 10.0] or
\* negative at both
NoBracket ==
    \/ FLt(F(0), NetPresentValue(RateLo)) /\ FLt(F(0), NetPresentValue(RateHi))
    \/ FLt(NetPresentValue(RateLo), F(0)) /\ FLt(NetPresentValue(RateHi), F(0))

\* C24: compute_xirr never raises; it returns 0 for no transactions and 0 when
\* the net present value has no root bracketed by [-0.99, 10.0], otherwise a
\* rate of [-0.99, 10.0] at which the net present value is zero: 0.10 for a
\* single BUY of 20000 worth 22000 exactly 365 days later.
C24_XirrNeverRaises ==
    metric.fn = "compute_xirr" =>
        /\ ~metric.value.raised
        /\ txns = <<>> => metric.value.rate = F(0)
        /\ (txns # <<>> /\ NoBracket) => metric.value.rate = F(0)
        /\ (txns # <<>> /\ ~NoBracket) =>
              /\ FLe(RateLo, metric.value.rate) /\ FLe(metric.value.rate, RateHi)
              /\ NetPresentValue(metric.value.rate) = F(0)
        /\ (txns = <<Transaction(0, "A", "BUY", 10, F(2000), F(-20000))>>
              /\ cur_value = F(22000) /\ end = 365) =>
              metric.value.rate = Rat(1, 10)

----------------------------------------------------------------------------
(* compute_twr applied to the series the builder returned, as run_analysis *)
(* applies it                                                              *)

SeriesTwr ==
    /\ spc = "returned"
    /\ metric.fn = "none"
    /\ metric' = [fn |-> "compute_twr", value |-> compute_twr(series)]
    /\ MetricFrame

SpecSeriesTwr == InitSeries /\ [][NextSeries \/ SeriesTwr]_vars

\* C29: for a built series whose total_value is positive on every day,
\* compute_twr is last total_value / first total_value - 1, whatever BUYs and
\* SELLs happen inside the period.
C29_TwrIsLastOverFirst ==
    (metric.fn = "compute_twr" /\ series # <<>>
       /\ \A j \in 1 .. Len(series) : FLt(F(0), series[j].total_value)) =>
        metric.value = FSub(FDiv(series[Len(series)].total_value, series[1].total_value),
                            F(1))

C29_Witness ==
    /\ metric.fn = "compute_twr"
    /\ Len(series) = 3
    /\ \A j \in 1 .. Len(series) : FLt(F(0), series[j].total_value)
    /\ \E j \in 1 .. Len(txns) : txns[j].type = "BUY" /\ txns[j].date > start
    /\ FLt(F(0), metric.value)

----------------------------------------------------------------------------
\* C28: in a run of run_analysis, on every day of the series every instrument
\* in holdings has a snapshot LTP dated that day or before, so its price is
\* never absent, whatever the price map holds; an instrument whose ticker is
\* missing from the price map is priced at its most recent snapshot LTP.
C28_HeldInstrumentAlwaysPriced ==
    (run \in {"fetched", "result"} /\ spc \in {"loop", "returned"}) =>
        /\ \A j \in 1 .. Len(series) : \A inst \in Instruments :
              Position(AppliedBy(series[j].date), inst).held =>
                  /\ LtpDatesUpTo(inst, series[j].date) # {}
                  /\ Resolve(inst, series[j].date) # None
                  /\ InstrumentTicker(snapshots, inst) \notin DOMAIN prices =>
                        Resolve(inst, series[j].date) = LastLtp(inst, series[j].date)
        /\ series # <<>> =>
              \A inst \in DOMAIN holdings_state :
                  LtpDatesUpTo(inst, series[Len(series)].date) # {}

C28_Witness ==
    /\ run = "result"
    /\ Len(snapshots) = 2
    /\ "B.NS" \notin DOMAIN prices
    /\ "B" \in DOMAIN holdings_state
    /\ Position(AppliedBy(17), "B").held
    /\ NoSnapshotOn(17)
    /\ Resolve("B", 17) = LastLtp("B", 17)
    /\ FLt(F(0), Worth("B", 17))

----------------------------------------------------------------------------
\* the days of the range of the last call the source has a close for
SourceDays == {d \in DOMAIN SourceOf(source, "A.NS").data : margs[1] <= d /\ d <= margs[2]}

\* the days the cache file of the ticker has a row for
CachedDays ==
    LET rs == ReadableRows(FileOf(cache, "A.NS"))
    IN  {DateOf(rs[j][1]) : j \in {k \in 1 .. Len(rs) : IsIsoDate(rs[k][1])}}

\* C26: get_daily_prices answers from the cache without asking the source only
\* when the cache covers the requested range, so after any sequence of calls
\* the returned map holds every price the source has in the requested range.
C26_CacheAnswersOnlyWhenCovering ==
    (mcalls > 0 /\ ~mres.raised /\ ~SourceOf(source, "A.NS").raises) =>
        /\ ~mres.fetched => SourceDays \subseteq CachedDays
        /\ SourceDays \subseteq DOMAIN mres.value

\* a request repeated right after a fetch that returned prices is served from
\* the cache
RepeatedRequestFromCache ==
    [][(mcalls' = mcalls + 1 /\ margs' = margs /\ cache_dir = "Path" /\ mcalls > 0
          /\ mres.fetched /\ mres.value # <<>>) => ~mres'.fetched]_vars

----------------------------------------------------------------------------
(* sheets.py: SheetsClient.upload_holdings.  The worksheet is the list of  *)
(* its rows; a row is <<column A, the other columns>>.                     *)

\* headers = ["date", *Holding.csv_headers()]
HoldingsHeaders == <<"date", "instrument">>

\* date.today().isoformat()
Today == "2025-01-16"

\* worksheet.col_values(1)
col_values(ws) == [j \in 1 .. Len(ws) |-> ws[j][1]]

\* worksheet.delete_rows(row_num)
delete_rows(ws, row_num) ==
    IF row_num > Len(ws) THEN ws
    ELSE SubSeq(ws, 1, row_num - 1) \o SubSeq(ws, row_num + 1, Len(ws))

\* worksheet.append_rows(rows)
append_rows(ws, rs) == ws \o rs

RECURSIVE DeleteEach(_, _)
\* for row_num in row_nums: worksheet.delete_rows(row_num)
DeleteEach(ws, row_nums) ==
    IF row_nums = <<>> THEN ws
    ELSE DeleteEach(delete_rows(ws, row_nums[1]), Tail(row_nums))

\* the 1-indexed row numbers whose column A is date_str, the header row skipped
matching_rows(ws, date_str) ==
    SelectSeq([j \in 1 .. Len(ws) |-> j],
              LAMBDA row_num : col_values(ws)[row_num] = date_str /\ row_num - 1 > 0)

\* reversed(xs)
Reversed(xs) == [j \in 1 .. Len(xs) |-> xs[Len(xs) + 1 - j]]

\* _delete_rows_for_date deleting from the top down
_delete_rows_for_date_TopDown(ws, date_str) ==
    DeleteEach(ws, matching_rows(ws, date_str))

_delete_rows_for_date(ws, date_str) ==
    DeleteEach(ws, Reversed(matching_rows(ws, date_str)))

\* _get_or_create_worksheet and _ensure_headers: a new worksheet has no row;
\* row 1 is overwritten when it is not the headers
_ensure_headers(ws, headers) ==
    IF ws = <<>> THEN <<headers>>
    ELSE IF ws[1] = headers THEN ws
    ELSE [ws EXCEPT ![1] = headers]

\* date_str or date.today().isoformat()
DateOr(date_str) == IF date_str = "None" THEN Today ELSE date_str

\* rows = [[date_str, *h.to_csv_row()] for h in holdings]
UploadRows(holdings, date_str) ==
    [j \in 1 .. Len(holdings) |-> <<DateOr(date_str), holdings[j]>>]

\* the worksheet upload_holdings leaves
upload_holdings(ws, holdings, date_str) ==
    IF holdings = <<>> THEN ws
    ELSE append_rows(_delete_rows_for_date(_ensure_headers(ws, HoldingsHeaders),
                                           DateOr(date_str)),
                     UploadRows(holdings, date_str))

----------------------------------------------------------------------------
(* Uploads in a row *)

\* at most this many calls of upload_holdings
MaxUploads == 2
\* at most this many data rows in the worksheet at the start
MaxSheetRows == 3

SheetDates == {"2025-01-15", "2025-01-16"}
SheetHoldings == {"A", "B"}
UploadLists == {<<>>, <<"A">>, <<"B">>, <<"A", "B">>, <<"B", "B">>}

UploadHoldings ==
    /\ uploads < MaxUploads
    /\ \E holdings \in UploadLists : \E date_str \in SheetDates \cup {"None"} :
         /\ sheet' = upload_holdings(sheet, holdings, date_str)
         /\ latest' = IF holdings = <<>> THEN latest
                      ELSE [d \in DOMAIN latest \cup {DateOr(date_str)} |->
                               IF d = DateOr(date_str) THEN UploadRows(holdings, date_str)
                               ELSE latest[d]]
         /\ last_upload' = [holdings |-> holdings, date_str |-> date_str,
                            before |-> sheet]
    /\ uploads' = uploads + 1
    /\ UNCHANGED <<inferVars, parseVars, seriesVars, marketVars, runVars, metricVars>>

\* no worksheet yet, or the headers and data rows of any dates in any order
InitSheets ==
    /\ \/ sheet = <<>>
       \/ \E n \in 0 .. MaxSheetRows :
            \E ds \in [1 .. n -> SheetDates] : \E hs \in [1 .. n -> SheetHoldings] :
              sheet = <<HoldingsHeaders>> \o [j \in 1 .. n |-> <<ds[j], hs[j]>>]
    /\ latest = <<>>
    /\ last_upload = [holdings |-> <<>>, date_str |-> "None", before |-> <<>>]
    /\ uploads = 0
    /\ snapshots = <<>>
    /\ txns = <<>>
    /\ i = 0
    /\ pc = "idle"
    /\ rows = <<>>
    /\ by_date = <<>>
    /\ ridx = 0
    /\ ppc = "idle"
    /\ run = "idle"
    /\ SeriesIdle
    /\ MarketIdle
    /\ RunIdle
    /\ MetricsIdle

NextSheets == UploadHoldings

SpecSheets == InitSheets /\ [][NextSheets]_vars

\* the rows of a worksheet whose column A is (keep) or is not (~keep) the date,
\* the first row left out, in their order
DataRows(ws, d, keep) ==
    SelectSeq(SubSeq(ws, 2, Len(ws)), LAMBDA row : (row[1] = d) <=> keep)

\* C27: after upload_holdings with non-empty holdings the data rows of the
\* date are exactly the uploaded rows, the header row and the rows of other
\* dates are kept in their order; so after any sequence of uploads the sheet
\* holds, for each date uploaded, only the rows of its latest upload.
C27_UploadReplacesRowsOfDate ==
    /\ (uploads > 0 /\ last_upload.holdings # <<>>) =>
          LET d == DateOr(last_upload.date_str)
          IN  /\ DataRows(sheet, d, TRUE)
                    = [j \in 1 .. Len(last_upload.holdings) |->
                          <<d, last_upload.holdings[j]>>]
              /\ sheet[1] = HoldingsHeaders
              /\ DataRows(sheet, d, FALSE) = DataRows(last_upload.before, d, FALSE)
    /\ \A d \in DOMAIN latest : DataRows(sheet, d, TRUE) = latest[d]

C27_Witness ==
    /\ uploads = 2
    /\ last_upload.holdings = <<"B", "B">>
    /\ last_upload.date_str = "2025-01-15"
    /\ Len(matching_rows(last_upload.before, "2025-01-15")) = 2
    /\ last_upload.before[2][1] = "2025-01-15"
    /\ last_upload.before[3][1] = "2025-01-16"
    /\ sheet = <<HoldingsHeaders, last_upload.before[3],
                 <<"2025-01-15", "B">>, <<"2025-01-15", "B">>>>

====
